---------------------------- MODULE Spec2Model ----------------------------
(***************************************************************************)
(* A model of the newsletter generator: the summarization stage            *)
(* (content_extraction.py), the categorization stage                       *)
(* (module3_categorization.py), the news selection (news_extraction.py)    *)
(* and the launcher script (run_full_ppt_pipeline.py).                     *)
(*                                                                         *)
(* Text is a sequence of one-character strings, so that lengths, slices,   *)
(* splits and comparisons are computed as Python computes them.            *)
(***************************************************************************)
EXTENDS Naturals, Sequences, FiniteSets, TLC

(***************************************************************************)
(* Python string primitives                                                *)
(***************************************************************************)

\* A Python string literal as a sequence of characters.
S(str) == [i \in 1..Len(str) |-> SubSeq(str, i, i)]

\* c * n
Rep(c, n) == [i \in 1..n |-> c]

Min(a, b) == IF a < b THEN a ELSE b

\* The elements of a finite set of numbers in ascending order.
SortSet(set) ==
    [k \in 1..Cardinality(set) |->
        CHOOSE x \in set : Cardinality({y \in set : y < x}) = k - 1]

UpperChars == S("ABCDEFGHIJKLMNOPQRSTUVWXYZ")
LowerChars == S("abcdefghijklmnopqrstuvwxyz")
DigitChars == S("0123456789")

\* set(seq)
SetOf(seq) == {seq[k] : k \in 1..Len(seq)}

UpperSet == SetOf(UpperChars)

\* the lower-case letter of each upper-case letter
LowerOf ==
    [c \in UpperSet |->
        LowerChars[CHOOSE i \in 1..Len(UpperChars) : UpperChars[i] = c]]

\* str.lower() on one character
LowerChar(c) == IF c \in UpperSet THEN LowerOf[c] ELSE c

\* str.lower()
Lower(t) == [i \in 1..Len(t) |-> LowerChar(t[i])]

\* the characters str.split() and str.strip() treat as whitespace, regex \s
SpaceChars == {" ", "\t", "\n", "\r"}

IsSpace(c) == c \in SpaceChars

\* regex \w
WordChars ==
    SetOf(UpperChars) \cup SetOf(LowerChars) \cup SetOf(DigitChars) \cup {"_"}

IsWordChar(c) == c \in WordChars

\* text[:n]
Prefix(t, n) == SubSeq(t, 1, Min(n, Len(t)))

\* str.strip()
Strip(t) ==
    LET keep == {i \in 1..Len(t) : ~IsSpace(t[i])}
    IN  IF keep = {} THEN <<>>
        ELSE SubSeq(t, CHOOSE i \in keep : \A j \in keep : i <= j,
                       CHOOSE i \in keep : \A j \in keep : j <= i)

\* needle occurs in t at position i (case-sensitive)
OccursAt(t, needle, i) ==
    /\ i >= 1
    /\ i + Len(needle) - 1 <= Len(t)
    /\ \A k \in 1..Len(needle) : t[i + k - 1] = needle[k]

\* needle in t
Contains(t, needle) == \E i \in 1..(Len(t) + 1) : OccursAt(t, needle, i)

\* str.split(): the maximal runs of non-whitespace characters, in order
WordStarts(t) ==
    {i \in 1..Len(t) : ~IsSpace(t[i]) /\ (i = 1 \/ IsSpace(t[i - 1]))}

WordEnds(t) ==
    {i \in 1..Len(t) : ~IsSpace(t[i]) /\ (i = Len(t) \/ IsSpace(t[i + 1]))}

Split(t) ==
    LET starts == WordStarts(t)
        ends   == WordEnds(t)
        \* the number of words that start at or before position i
        rank   == [i \in starts |-> Cardinality({j \in starts : j <= i})]
        last   == [i \in starts |->
                      CHOOSE e \in ends :
                          e >= i /\ \A f \in ends : f >= i => e <= f]
    IN  [k \in 1..Cardinality(starts) |->
            LET i == CHOOSE i \in starts : rank[i] = k
            IN  SubSeq(t, i, last[i])]

(***************************************************************************)
(* Regular-expression primitives (re.IGNORECASE, \b, \s+, re.sub)          *)
(***************************************************************************)

\* needle matches in t at position i under re.IGNORECASE
OccursAtCI(t, needle, i) ==
    /\ i >= 1
    /\ i + Len(needle) - 1 <= Len(t)
    /\ \A k \in 1..Len(needle) : LowerChar(t[i + k - 1]) = LowerChar(needle[k])

\* regex \b between positions i-1 and i of t (i in 1..Len(t)+1)
WordBoundary(t, i) ==
    (i > 1 /\ i - 1 <= Len(t) /\ IsWordChar(t[i - 1]))
        # (i >= 1 /\ i <= Len(t) /\ IsWordChar(t[i]))

\* the positions just after a match of \s+ that starts at position j
AfterSpaces(t, j) ==
    {e \in (j + 1)..(Len(t) + 1) : \A k \in j..(e - 1) : IsSpace(t[k])}

\* the smallest element of a non-empty set of numbers
MinOf(set) == CHOOSE x \in set : \A y \in set : x <= y
MaxOf(set) == CHOOSE x \in set : \A y \in set : y <= x

\* re.sub over the matches found in t: matches is a set of records
\* [s |-> first position, e |-> position after the match, r |-> replacement],
\* at most one per first position; the scan goes left to right from pos and
\* replaces at most count non-overlapping matches.
RECURSIVE ReSub(_, _, _, _)
ReSub(t, matches, pos, count) ==
    LET ahead == {m \in matches : m.s >= pos}
    IN  IF count = 0 \/ ahead = {} THEN SubSeq(t, pos, Len(t))
        ELSE LET m == CHOOSE m \in ahead : \A o \in ahead : m.s <= o.s
             IN  SubSeq(t, pos, m.s - 1) \o m.r
                     \o ReSub(t, matches, m.e, count - 1)

\* count=0 of re.sub: every match is replaced (no match is empty here, so
\* a text of n characters has at most n of them)
SubAll(t, matches) == ReSub(t, matches, 1, Len(t) + 1)

(***************************************************************************)
(* ArticleSummarizer._load_entity_knowledge, _create_entity_patterns       *)
(***************************************************************************)

law_firms ==
    << "Slaughter and May", "Clifford Chance", "Linklaters", "Freshfields",
       "Allen & Overy", "Skadden Arps", "Davis Polk", "Sullivan & Cromwell",
       "Cravath", "Wachtell Lipton", "Kirkland & Ellis", "Latham & Watkins" >>

consulting_firms ==
    << "McKinsey & Company", "Boston Consulting Group", "Bain & Company",
       "BCG", "Deloitte", "PwC", "EY", "KPMG", "Accenture" >>

investment_banks ==
    << "Goldman Sachs", "Morgan Stanley", "JPMorgan Chase", "Bank of America",
       "Citigroup", "Barclays", "Deutsche Bank", "Credit Suisse", "UBS" >>

\* self.entity_corrections, in insertion order: (entity, entity_type)
entity_corrections ==
    [k \in 1..Len(law_firms) |-> <<S(law_firms[k]), S("law firm")>>]
    \o [k \in 1..Len(consulting_firms) |->
            <<S(consulting_firms[k]), S("consulting firm")>>]
    \o [k \in 1..Len(investment_banks) |->
            <<S(investment_banks[k]), S("investment bank")>>]

\* the matches of rf'\b{re.escape(entity)}\b' in t, re.IGNORECASE, each to be
\* replaced by repl
EntityMatches(t, entity, repl) ==
    {[s |-> i, e |-> i + Len(entity), r |-> repl] :
        i \in {j \in 1..Len(t) :
                 /\ OccursAtCI(t, entity, j)
                 /\ WordBoundary(t, j)
                 /\ WordBoundary(t, j + Len(entity))}}

(***************************************************************************)
(* ArticleSummarizer.preprocess_text_with_context                          *)
(***************************************************************************)

ContextOpen  == S(" (the ")
ContextClose == S(")")

\* PreprocessLoop as it would be without count=1: every occurrence of the
\* entity gets the context
RECURSIVE PreprocessLoop_all(_, _, _)
PreprocessLoop_all(text, processed_text, k) ==
    IF k > Len(entity_corrections) THEN processed_text
    ELSE LET entity      == entity_corrections[k][1]
             entity_type == entity_corrections[k][2]
             context_addition == ContextOpen \o entity_type \o ContextClose
         IN  IF EntityMatches(text, entity, <<>>) # {}
             THEN PreprocessLoop_all(text,
                      SubAll(processed_text,
                             EntityMatches(processed_text, entity,
                                           entity \o context_addition)),
                      k + 1)
             ELSE PreprocessLoop_all(text, processed_text, k + 1)

\* the loop over self.entity_patterns from entry k on
RECURSIVE PreprocessLoop(_, _, _)
PreprocessLoop(text, processed_text, k) ==
    IF k > Len(entity_corrections) THEN processed_text
    ELSE LET entity      == entity_corrections[k][1]
             entity_type == entity_corrections[k][2]
             context_addition == ContextOpen \o entity_type \o ContextClose
         IN  IF EntityMatches(text, entity, <<>>) # {}
             THEN PreprocessLoop(text,
                      ReSub(processed_text,
                            EntityMatches(processed_text, entity,
                                          entity \o context_addition),
                            1, 1),
                      k + 1)
             ELSE PreprocessLoop(text, processed_text, k + 1)

preprocess_text_with_context(text) ==
    IF text = <<>> THEN text ELSE PreprocessLoop(text, text, 1)

(***************************************************************************)
(* ArticleSummarizer.post_process_summary                                  *)
(***************************************************************************)

LawFirmNouns    == <<S("law firm"), S("firm"), S("LLP")>>
ConsultingNouns == <<S("consulting"), S("firm")>>
BankNouns       == <<S("bank"), S("investment")>>

\* the bare-name entries of corrections, in dictionary order:
\* (name, the alternatives of the negative lookahead, replacement)
BareNameRules ==
    << <<S("Slaughter and May"), LawFirmNouns, S("Slaughter and May law firm")>>,
       <<S("Clifford Chance"), LawFirmNouns, S("Clifford Chance law firm")>>,
       <<S("Linklaters"), LawFirmNouns, S("Linklaters law firm")>>,
       <<S("McKinsey & Company"), ConsultingNouns,
         S("McKinsey & Company consulting firm")>>,
       <<S("Boston Consulting Group"), ConsultingNouns,
         S("Boston Consulting Group")>>,
       <<S("Bain & Company"), ConsultingNouns,
         S("Bain & Company consulting firm")>>,
       <<S("Goldman Sachs"), BankNouns, S("Goldman Sachs investment bank")>>,
       <<S("Morgan Stanley"), BankNouns, S("Morgan Stanley investment bank")>> >>

\* (?!\s+(?:alt1|alt2|...)) fails at position j: whitespace and then one
\* of the alternatives follow
LookaheadHits(t, j, alts) ==
    \E e \in AfterSpaces(t, j) :
        \E a \in 1..Len(alts) : OccursAtCI(t, alts[a], e)

\* the matches of r'\bNAME\b(?!\s+(?:...))'
BareNameMatches(t, rule) ==
    {[s |-> i, e |-> i + Len(rule[1]), r |-> rule[3]] :
        i \in {j \in 1..Len(t) :
                 /\ OccursAtCI(t, rule[1], j)
                 /\ WordBoundary(t, j)
                 /\ WordBoundary(t, j + Len(rule[1]))
                 /\ ~LookaheadHits(t, j + Len(rule[1]), rule[2])}}

\* [\w\s]
IsWordOrSpace(c) == IsWordChar(c) \/ IsSpace(c)

\* ' (?:survive|make it out|escape)'
PersonVerbs == <<S(" survive"), S(" make it out"), S(" escape")>>

PersonAnd == S(" and ")

PersonSuffix == S(" (the law firm) survive")

\* the last positions b of a second group that starts at position g:
\* t[g..b] is in [\w\s]+ and ' (?:survive|make it out|escape)' follows
PersonGroup2Ends(t, g) ==
    {b \in g..Len(t) :
        /\ \A k \in g..b : IsWordOrSpace(t[k])
        /\ \E v \in 1..Len(PersonVerbs) :
               OccursAtCI(t, PersonVerbs[v], b + 1)}

\* the last positions a of a first group that starts at position i:
\* t[i..a] is in [\w\s]+, ' and ' follows, and the rest of the pattern can
\* match after it
PersonGroup1Ends(t, i) ==
    {a \in i..Len(t) :
        /\ \A k \in i..a : IsWordOrSpace(t[k])
        /\ OccursAtCI(t, PersonAnd, a + 1)
        /\ PersonGroup2Ends(t, a + 1 + Len(PersonAnd)) # {}}

\* the replacement function of the person-like rule, on the groups and the
\* whole match
PersonReplacement(g1, g2, whole) ==
    LET both == g1 \o PersonAnd \o g2
    IN  IF \E k \in 1..Len(entity_corrections) :
               Contains(both, entity_corrections[k][1])
        THEN both \o PersonSuffix
        ELSE whole

\* the matches of r'\b([\w\s]+) and ([\w\s]+) (?:survive|make it out|escape)':
\* both groups are greedy, so each takes the longest run that lets the rest
\* of the pattern match
PersonMatches(t) ==
    {LET a == MaxOf(PersonGroup1Ends(t, i))
         b == MaxOf(PersonGroup2Ends(t, a + 1 + Len(PersonAnd)))
         v == CHOOSE v \in 1..Len(PersonVerbs) :
                  OccursAtCI(t, PersonVerbs[v], b + 1)
         e == b + 1 + Len(PersonVerbs[v])
     IN  [s |-> i, e |-> e,
          r |-> PersonReplacement(SubSeq(t, i, a), SubSeq(t, a + 1 + Len(PersonAnd), b),
                                  SubSeq(t, i, e - 1))] :
        i \in {j \in 1..Len(t) :
                 WordBoundary(t, j) /\ PersonGroup1Ends(t, j) # {}}}

RelationVerbs  == <<S("are"), S("is")>>
RelationWords  == <<S("a couple"), S("married"), S("together")>>
RelationEntity == S("Slaughter and May")
RelationSuffix == S(" is a law firm")

\* the positions after a match of '\s+(?:are|is)\s+(?:a couple|married|together)'
\* that starts at position j
RelationEnds(t, j) ==
    {e2 + Len(RelationWords[w]) :
        <<e2, w>> \in
            {p \in (1..(Len(t) + 1)) \X (1..Len(RelationWords)) :
                /\ OccursAtCI(t, RelationWords[p[2]], p[1])
                /\ \E e1 \in AfterSpaces(t, j) :
                       \E v \in 1..Len(RelationVerbs) :
                           /\ OccursAtCI(t, RelationVerbs[v], e1)
                           /\ p[1] \in AfterSpaces(t, e1 + Len(RelationVerbs[v]))}}

\* the matches of the relationship rule, replaced by r'\1 is a law firm'
RelationMatches(t) ==
    {[s |-> i, e |-> MaxOf(RelationEnds(t, i + Len(RelationEntity))),
      r |-> SubSeq(t, i, i + Len(RelationEntity) - 1) \o RelationSuffix] :
        i \in {j \in 1..Len(t) :
                 /\ OccursAtCI(t, RelationEntity, j)
                 /\ WordBoundary(t, j)
                 /\ RelationEnds(t, j + Len(RelationEntity)) # {}}}

\* the loop over corrections.items(), bare-name entries from entry k on
RECURSIVE BareNameLoop(_, _)
BareNameLoop(processed_summary, k) ==
    IF k > Len(BareNameRules) THEN processed_summary
    ELSE BareNameLoop(SubAll(processed_summary,
                             BareNameMatches(processed_summary, BareNameRules[k])),
                      k + 1)

ApplyPersonRule(t) == SubAll(t, PersonMatches(t))

ApplyRelationRule(t) == SubAll(t, RelationMatches(t))

post_process_summary(the_summary) ==
    IF the_summary = <<>> THEN the_summary
    ELSE ApplyRelationRule(ApplyPersonRule(BareNameLoop(the_summary, 1)))

(***************************************************************************)
(* ArticleSummarizer.fallback_summarize                                    *)
(***************************************************************************)

Terminators == {".", "!", "?"}

IsTerminator(c) == c \in Terminators

\* re.split(r'[.!?]+', text): the pieces between maximal runs of terminators
SplitSentences(t) ==
    LET st == SortSet({i \in 1..Len(t) :
                  IsTerminator(t[i]) /\ (i = 1 \/ ~IsTerminator(t[i - 1]))})
        en == SortSet({i \in 1..Len(t) :
                  IsTerminator(t[i]) /\ (i = Len(t) \/ ~IsTerminator(t[i + 1]))})
        n  == Len(st)
    IN  [k \in 1..(n + 1) |->
            SubSeq(t, IF k = 1 THEN 1 ELSE en[k - 1] + 1,
                      IF k = n + 1 THEN Len(t) ELSE st[k] - 1)]

\* default of fallback_summarize's max_length, and max_summary_length
MaxSummaryLength == 200

\* sentences[:3]
FallbackSentences == 3

SentenceJoin == S(". ")
Ellipsis     == S("...")

\* the loop of fallback_summarize from sentence k on, with the summary so far
RECURSIVE FallbackLoop(_, _, _, _)
FallbackLoop(sentences, k, acc, max_length) ==
    IF k > Min(FallbackSentences, Len(sentences)) THEN acc
    ELSE IF Len(acc \o sentences[k]) > max_length THEN acc
    ELSE FallbackLoop(sentences, k + 1,
                      acc \o Strip(sentences[k]) \o SentenceJoin, max_length)

fallback_summarize(text, max_length) ==
    LET sentences == SplitSentences(text)
    IN  IF Len(sentences) < 2
        THEN Prefix(text, max_length) \o Ellipsis
        ELSE Strip(FallbackLoop(sentences, 1, <<>>, max_length))

(***************************************************************************)
(* ArticleSummarizer.is_valid_summary                                      *)
(***************************************************************************)

MinValidLength == 20
OverlapWindow == 100

\* re.search(r'http[s]?://', summary)
UrlHttp  == S("http://")
UrlHttps == S("https://")

HasUrl(t) == Contains(t, UrlHttp) \/ Contains(t, UrlHttps)

\* is_valid_summary as it would be with overlap <= 0.8 accepted
is_valid_summary_inclusive(the_summary, original_text) ==
    IF the_summary = <<>> \/ Len(Strip(the_summary)) < MinValidLength THEN FALSE
    ELSE IF HasUrl(the_summary) THEN FALSE
    ELSE LET summary_words  == SetOf(Split(Lower(the_summary)))
             original_words ==
                 SetOf(Prefix(Split(Lower(original_text)), OverlapWindow))
             common == Cardinality(summary_words \cap original_words)
         IN  IF Cardinality(summary_words) = 0 THEN FALSE
             ELSE 10 * common <= 8 * Cardinality(summary_words)

is_valid_summary(the_summary, original_text) ==
    IF the_summary = <<>> \/ Len(Strip(the_summary)) < MinValidLength THEN FALSE
    ELSE IF HasUrl(the_summary) THEN FALSE
    ELSE LET summary_words  == SetOf(Split(Lower(the_summary)))
             original_words ==
                 SetOf(Prefix(Split(Lower(original_text)), OverlapWindow))
             common == Cardinality(summary_words \cap original_words)
         IN  IF Cardinality(summary_words) = 0 THEN FALSE
             \* overlap < 0.8
             ELSE 10 * common < 8 * Cardinality(summary_words)

(***************************************************************************)
(* ArticleSummarizer.clean_text                                            *)
(***************************************************************************)

LetterSet == SetOf(UpperChars) \cup SetOf(LowerChars)
DigitSet  == SetOf(DigitChars)

\* the characters the URL pattern repeats: letters, digits, the range $-_
\* (which holds the punctuation from "$" to "_"), and @ . & + ! * \ ( ) ,
UrlChars ==
    LetterSet \cup DigitSet \cup SetOf(S("$%&'()*+,-./:;<=>?@[]^_!")) \cup {"\\"}

\* the position after the longest run of characters of set that starts at i
RunEnd(t, i, set) ==
    MinOf({e \in i..(Len(t) + 1) : e = Len(t) + 1 \/ t[e] \notin set})

\* the matches of http[s]?://(...)+ : the scheme and at least one character
UrlMatches(t) ==
    {[s |-> i, e |-> RunEnd(t, i + Len(scheme), UrlChars), r |-> <<>>] :
        <<i, scheme>> \in
            {x \in (1..Len(t)) \X {UrlHttp, UrlHttps} :
                /\ OccursAt(t, x[2], x[1])
                /\ RunEnd(t, x[1] + Len(x[2]), UrlChars) > x[1] + Len(x[2])}}

EmailLocalChars  == LetterSet \cup DigitSet \cup SetOf(S("._%+-"))
EmailDomainChars == LetterSet \cup DigitSet \cup SetOf(S(".-"))
\* [A-Z|a-z]: the letters and the bar
EmailTldChars    == LetterSet \cup {"|"}

\* the ends (position after the match) of the matches of the e-mail pattern
\* that start at i, each with the end of its domain part
EmailEnds(t, i) ==
    LET at == RunEnd(t, i, EmailLocalChars)
    IN  IF ~(WordBoundary(t, i) /\ at > i /\ at <= Len(t) /\ t[at] = "@")
        THEN {}
        ELSE {x \in ((at + 2)..Len(t)) \X ((at + 4)..(Len(t) + 1)) :
                 /\ \A k \in (at + 1)..(x[1] - 1) : t[k] \in EmailDomainChars
                 /\ t[x[1]] = "."
                 /\ x[2] >= x[1] + 3
                 /\ \A k \in (x[1] + 1)..(x[2] - 1) : t[k] \in EmailTldChars
                 /\ WordBoundary(t, x[2])}

\* the match the pattern takes at i: the longest domain part, then the
\* longest top-level part (both quantifiers are greedy)
EmailMatches(t) ==
    {[s |-> i,
      e |-> LET ends == EmailEnds(t, i)
                dot  == MaxOf({x[1] : x \in ends})
            IN  MaxOf({x[2] : x \in {y \in ends : y[1] = dot}}),
      r |-> <<>>] : i \in {j \in 1..Len(t) : EmailEnds(t, j) # {}}}

\* the matches of \s+ : the maximal runs of whitespace, replaced by a space
WhitespaceMatches(t) ==
    {[s |-> i, e |-> RunEnd(t, i, SpaceChars), r |-> S(" ")] :
        i \in {j \in 1..Len(t) :
                  IsSpace(t[j]) /\ (j = 1 \/ ~IsSpace(t[j - 1]))}}

\* boilerplate_patterns: the phrase each pattern starts with and, for
\* comments.*below, the word it ends with; the others end with .*
boilerplate_patterns ==
    << <<S("click here"), <<>>>>,
       <<S("read more"), <<>>>>,
       <<S("subscribe"), <<>>>>,
       <<S("follow us"), <<>>>>,
       <<S("share this"), <<>>>>,
       <<S("comments"), S("below")>>,
       <<S("cookie policy"), <<>>>>,
       <<S("privacy policy"), <<>>>> >>

\* where "." stops matching: the next newline, or the end of the text
LineEnd(t, i) == RunEnd(t, i, SetOf(t) \ {"\n"})

\* the matches of one boilerplate pattern under re.IGNORECASE: the phrase,
\* then .* to the end of the line, or to the last closing word on the line
BoilerplateMatches(t, pattern) ==
    LET phrase == pattern[1]
        close  == pattern[2]
        from   == {i \in 1..Len(t) : OccursAtCI(t, phrase, i)}
        closes(i) == {j \in (i + Len(phrase))..LineEnd(t, i + Len(phrase)) :
                         j + Len(close) <= LineEnd(t, i + Len(phrase))
                         /\ OccursAtCI(t, close, j)}
    IN  IF close = <<>>
        THEN {[s |-> i, e |-> LineEnd(t, i + Len(phrase)), r |-> <<>>] :
                 i \in from}
        ELSE {[s |-> i, e |-> MaxOf(closes(i)) + Len(close), r |-> <<>>] :
                 i \in {j \in from : closes(j) # {}}}

\* the loop over boilerplate_patterns from pattern k on
RECURSIVE BoilerplateLoop(_, _)
BoilerplateLoop(t, k) ==
    IF k > Len(boilerplate_patterns) THEN t
    ELSE BoilerplateLoop(
             SubAll(t, BoilerplateMatches(t, boilerplate_patterns[k])), k + 1)

\* the text before the boilerplate loop: URLs and e-mail addresses removed,
\* whitespace collapsed
Scrubbed(t) ==
    LET no_urls   == SubAll(t, UrlMatches(t))
        no_emails == SubAll(no_urls, EmailMatches(no_urls))
    IN  SubAll(no_emails, WhitespaceMatches(no_emails))

clean_text(text) ==
    IF text = <<>> THEN <<>>
    ELSE Strip(BoilerplateLoop(Scrubbed(text), 1))

(***************************************************************************)
(* ArticleSummarizer.fetch_full_article_text                               *)
(***************************************************************************)

\* None
None == <<"<None>">>

\* default of fetch_full_article_text's min_length
MinLength == 500

\* What requests.get and extract_main_content give for a url: the request
\* raises, or answers with a status and the cleaned main content of the page.
\* The function maps every failure to None.
fetch_full_article_text(resp) ==
    IF resp.raised THEN None
    ELSE IF resp.status_code # 200 THEN None
    ELSE IF Len(resp.content) < MinLength THEN None
    ELSE resp.content

(***************************************************************************)
(* The two summarization methods.  outcome is what the external model      *)
(* does with the text: it raises, or it returns outcome.text.  The result  *)
(* carries the summary, the stages the call went through, and whether the  *)
(* summary returned is the extractive fallback's.                          *)
(***************************************************************************)

MaxInputLength == 1024

\* ' '.join(words)
RECURSIVE JoinWords(_, _)
JoinWords(words, k) ==
    IF k > Len(words) THEN <<>>
    ELSE IF k = Len(words) THEN words[k]
    ELSE words[k] \o <<" ">> \o JoinWords(words, k + 1)

\* the input truncation of summarize_with_pipeline
TruncateInput(contextual_text, max_input_length) ==
    IF Len(Split(contextual_text)) > max_input_length
    THEN JoinWords(Prefix(Split(contextual_text), max_input_length), 1)
    ELSE contextual_text

\* the text the model is given by summarize_with_pipeline
PipelineInput(text) ==
    TruncateInput(preprocess_text_with_context(text), MaxInputLength)

\* summarize_with_pipeline as it would be without the post-processing call
summarize_with_pipeline_raw(text, outcome) ==
    IF outcome.raised
    THEN [summary       |-> fallback_summarize(text, MaxSummaryLength),
          stages        |-> <<"inject", "summarize", "fallback">>,
          from_fallback |-> TRUE]
    ELSE [summary       |-> outcome.text,
          stages        |-> <<"inject", "summarize", "correct">>,
          from_fallback |-> FALSE]

summarize_with_pipeline(text, outcome) ==
    IF outcome.raised
    THEN [summary       |-> fallback_summarize(text, MaxSummaryLength),
          stages        |-> <<"inject", "summarize", "fallback">>,
          from_fallback |-> TRUE]
    ELSE [summary       |-> post_process_summary(outcome.text),
          stages        |-> <<"inject", "summarize", "correct">>,
          from_fallback |-> FALSE]

summarize_with_model(text, outcome) ==
    IF outcome.raised
    THEN [summary       |-> fallback_summarize(text, MaxSummaryLength),
          stages        |-> <<"inject", "summarize", "fallback">>,
          from_fallback |-> TRUE]
    ELSE IF is_valid_summary(post_process_summary(outcome.text), text)
    THEN [summary       |-> post_process_summary(outcome.text),
          stages        |-> <<"inject", "summarize", "correct", "validate">>,
          from_fallback |-> FALSE]
    ELSE [summary       |-> fallback_summarize(text, MaxSummaryLength),
          stages        |-> <<"inject", "summarize", "correct", "validate",
                              "fallback">>,
          from_fallback |-> TRUE]

(***************************************************************************)
(* The inputs of a run                                                     *)
(***************************************************************************)

\* the number of articles of the input file is at most MaxArticles
MaxArticles == 2

\* the thresholds of the content selection in process_articles
FullTextMin == 200
SummaryMin  == 50

\* t followed by filler words up to n characters in all
Fill(t, n) == t \o [i \in 1..(n - Len(t)) |-> IF i = 1 THEN " " ELSE "x"]

\* a title whose first sentence is longer than the fallback's max_length
LongTitle == Rep("a", MaxSummaryLength + 1) \o S(".")

\* a title of three short sentences
ThreeSentenceTitle == S("Acme wins. Shares up. All glad.")

\* a title whose sentences end in exclamation marks
BangTitle == S("Acme wins big! Shares jump! Rivals")

SummaryLead == S("Linklaters advised Acme on the deal")

\* an article of the input file: a JSON object with its title, summary and
\* link, or an element that is no object (is_dict false), on which
\* article.get raises
Article(t, sm, l) == [is_dict |-> TRUE, title |-> t, summary |-> sm, link |-> l]

NotAnObject == [is_dict |-> FALSE, title |-> <<>>, summary |-> <<>>, link |-> <<>>]

Articles ==
    { NotAnObject,
      Article(LongTitle, <<>>, S("u1")),
      Article(ThreeSentenceTitle, Fill(SummaryLead, SummaryMin), S("u2")),
      Article(BangTitle, Fill(SummaryLead, SummaryMin + 1), S("u3")) }

PageLead == S("Acme said on Monday it won. Goldman Sachs advised.")

\* what the fetch of a url can give
Responses ==
    { [raised |-> TRUE,  status_code |-> 0,   content |-> <<>>],
      [raised |-> FALSE, status_code |-> 404, content |-> <<>>],
      [raised |-> FALSE, status_code |-> 200,
       content |-> Fill(PageLead, MinLength - 1)],
      [raised |-> FALSE, status_code |-> 200,
       content |-> Fill(PageLead, MinLength)] }

NovelSummary == S("Linklaters advised on the merger, sources said")

\* what the external model can do with the text it is given: raise, return
\* nothing, return a summary in new words, or copy the lead of its input
GenOutcomes(model_input) ==
    { [raised |-> TRUE,  text |-> <<>>],
      [raised |-> FALSE, text |-> <<>>],
      [raised |-> FALSE, text |-> NovelSummary],
      [raised |-> FALSE, text |-> Prefix(model_input, MaxSummaryLength)] }

\* the sequences over set of length at most n
SeqsUpTo(set, n) == UNION {[1..k -> set] : k \in 0..n}

TitleJoin == S(". ")

\* SelectText as it would be with >= in place of > on the summary's length
SelectText_inclusive(t, sm, full) ==
    IF full # None /\ full # <<>> /\ Len(full) > FullTextMin
    THEN t \o TitleJoin \o full
    ELSE IF sm # <<>> /\ Len(sm) >= SummaryMin
    THEN t \o TitleJoin \o sm
    ELSE t

\* the choice of the text to summarize
SelectText(t, sm, full) ==
    IF full # None /\ full # <<>> /\ Len(full) > FullTextMin
    THEN t \o TitleJoin \o full
    ELSE IF sm # <<>> /\ Len(sm) > SummaryMin
    THEN t \o TitleJoin \o sm
    ELSE t

(***************************************************************************)
(* The values of the summarizer's functions on the texts a run can select. *)
(* Each table is a constant, which TLC computes once; the actions look the *)
(* values up instead of computing them again in every state.               *)
(***************************************************************************)

SelectableTexts ==
    {SelectText(a.title, a.summary, fetch_full_article_text(r)) :
        a \in {b \in Articles : b.is_dict}, r \in Responses}

\* the value a table gives for a key
Lookup(table, key) == (CHOOSE entry \in table : entry[1] = key)[2]

\* contextual_text as the model receives it, per text
ModelInputs == {<<t, PipelineInput(t)>> : t \in SelectableTexts}

\* the return value of the summarization call, per text, outcome of the
\* model and method
Summarized ==
    UNION {{<< <<t, g>>, [pipeline |-> summarize_with_pipeline(t, g),
                          model    |-> summarize_with_model(t, g)] >> :
               g \in GenOutcomes(Lookup(ModelInputs, t))} :
           t \in SelectableTexts}

\* self.fallback_summarize(text_to_summarize), per text
Fallbacks ==
    {<<t, fallback_summarize(t, MaxSummaryLength)>> : t \in SelectableTexts}

\* the summaries the summarization call can return
Candidates ==
    UNION {{<<entry[1][1], entry[2].pipeline.summary>>,
            <<entry[1][1], entry[2].model.summary>>} : entry \in Summarized}

\* self.is_valid_summary(summary, text_to_summarize), per (text, summary)
Validity == {<<c, is_valid_summary(c[2], c[1])>> : c \in Candidates}

(***************************************************************************)
(* ArticleSummarizer.process_articles                                      *)
(***************************************************************************)

VARIABLES
    articles,           \* json.load(f): the input file's articles
    use_pipeline,       \* the parameter of process_articles
    pc,                 \* where process_articles is
    idx,                \* the index of the article of the current iteration
    title, existing_summary, url, full_text, text_to_summarize, summary,
    processed,          \* the records appended so far
    failed_summaries,   \* the counter printed as "used fallback"
    output,             \* the output file's content
    writes,             \* how many times the output file was written
    \* history of the current iteration
    response,           \* what the fetch of the article's url gave
    gen,                \* what the external model did
    stages,             \* the stages run so far, in order
    from_fallback,      \* summary holds a result of fallback_summarize
    rejected,           \* is_valid_summary rejected a generative summary
    \* history of the run
    outcomes,           \* per article finished: "emitted" or "failed"
    failed_at,          \* the stages at which articles failed
    fallback_records    \* the records emitted with a fallback summary

vars ==
    << articles, use_pipeline, pc, idx, title, existing_summary, url,
       full_text, text_to_summarize, summary, processed, failed_summaries,
       output, writes, response, gen, stages, from_fallback, rejected,
       outcomes, failed_at, fallback_records >>

locals == << title, existing_summary, url, full_text, text_to_summarize, summary >>

iteration == << response, gen, stages, from_fallback, rejected >>

results == << processed, failed_summaries, output, writes >>

history == << outcomes, failed_at, fallback_records >>

\* The state of the categorization run (module3_categorization.process_articles)
VARIABLES
    cat_articles,       \* json.load(f): the input file's items
    cat_pc,             \* where the categorization run is
    cat_idx,            \* the index of the item of the current iteration
    category,           \* the local of the loop
    categories,         \* per item assigned: the value of article['category']
    cat_output,         \* the output file's content
    cat_writes,         \* how many times the output file was written
    \* history
    raw,                \* what the classifier answered for the current item
    cat_raised          \* the items whose try block raised

cat_vars ==
    << cat_articles, cat_pc, cat_idx, category, categories, cat_output,
       cat_writes, raw, cat_raised >>

\* The state of one call of a text function
VARIABLES
    fn,                 \* the function called, "idle" before the call
    arg,                \* its arguments
    ret                 \* what it returned

fn_vars == << fn, arg, ret >>

\* the categorization run has not started
CatIdle ==
    /\ cat_articles = <<>>
    /\ cat_pc = "idle"
    /\ cat_idx = 0
    /\ category = <<>>
    /\ categories = <<>>
    /\ cat_output = <<>>
    /\ cat_writes = 0
    /\ raw = <<>>
    /\ cat_raised = {}

\* no text function is being called
FnIdle ==
    /\ fn = "idle"
    /\ arg = <<>>
    /\ ret = <<>>

\* The state of a run of the launcher script (run_full_ppt_pipeline.py)
VARIABLES
    installed,          \* the third-party packages the interpreter can import
    pipe_pc,            \* where the script is
    line,               \* the import statement being executed
    names,              \* the names bound in the script's namespace
    started,            \* the stages started, in order
    completed,          \* the stages that returned, in order
    failure,            \* what ended the run, "none" while nothing has
    exit_status         \* the exit status of the process, once it has exited

pipe_vars ==
    << installed, pipe_pc, line, names, started, completed, failure,
       exit_status >>

\* the launcher is not run
PipeIdle ==
    /\ installed = {}
    /\ pipe_pc = "idle"
    /\ line = 0
    /\ names = {}
    /\ started = <<>>
    /\ completed = <<>>
    /\ failure = "none"
    /\ exit_status = 0

NoResponse == [raised |-> FALSE, status_code |-> 0, content |-> <<>>]
NoGen      == [raised |-> FALSE, text |-> <<>>]

Init ==
    /\ articles \in SeqsUpTo(Articles, MaxArticles)
    /\ use_pipeline \in BOOLEAN
    /\ pc = "start"
    /\ idx = 0
    /\ title = <<>> /\ existing_summary = <<>> /\ url = <<>>
    /\ full_text = None /\ text_to_summarize = <<>> /\ summary = <<>>
    /\ processed = <<>>
    /\ failed_summaries = 0
    /\ output = <<>>
    /\ writes = 0
    /\ response = NoResponse /\ gen = NoGen /\ stages = <<>>
    /\ from_fallback = FALSE /\ rejected = FALSE
    /\ outcomes = <<>> /\ failed_at = {} /\ fallback_records = 0
    /\ CatIdle /\ FnIdle /\ PipeIdle

\* open(input_path) and json.load: the run starts once the input is read;
\* when it cannot be read or parsed the exception ends the run
Load ==
    /\ pc = "start"
    /\ \/ pc' = "loop"
       \/ pc' = "aborted"
    /\ UNCHANGED << articles, use_pipeline, idx, locals, results, iteration,
                    history >>
    /\ UNCHANGED << cat_vars, fn_vars, pipe_vars >>

\* for article in articles: the next iteration, or the end of the loop.
\* The locals of the function keep the values the previous iteration gave
\* them until the iteration assigns them again.
NextArticle ==
    /\ pc = "loop"
    /\ IF idx < Len(articles)
       THEN /\ idx' = idx + 1
            /\ pc' = "get"
            /\ UNCHANGED locals
            /\ response' = NoResponse /\ gen' = NoGen /\ stages' = <<>>
            /\ from_fallback' = FALSE /\ rejected' = FALSE
       ELSE /\ pc' = "save"
            /\ UNCHANGED << idx, locals, iteration >>
    /\ UNCHANGED << articles, use_pipeline, results, history >>
    /\ UNCHANGED << cat_vars, fn_vars, pipe_vars >>

\* ExceptHandler as it would be with break in place of continue: the first
\* failure ends the loop
ExceptHandler_break ==
    /\ pc' = "save"
    /\ outcomes' = Append(outcomes, "failed")
    /\ failed_at' = failed_at \cup {pc}
    /\ UNCHANGED << articles, use_pipeline, idx, locals, results, iteration,
                    fallback_records >>
    /\ UNCHANGED << cat_vars, fn_vars, pipe_vars >>

\* except Exception: print and continue with the next article
ExceptHandler ==
    /\ pc' = "loop"
    /\ outcomes' = Append(outcomes, "failed")
    /\ failed_at' = failed_at \cup {pc}
    /\ UNCHANGED << articles, use_pipeline, idx, locals, results, iteration,
                    fallback_records >>
    /\ UNCHANGED << cat_vars, fn_vars, pipe_vars >>

\* title, existing_summary, url = article.get(...)
GetContent ==
    /\ pc = "get"
    /\ IF articles[idx].is_dict
       THEN /\ title' = articles[idx].title
            /\ existing_summary' = articles[idx].summary
            /\ url' = articles[idx].link
            /\ pc' = "fetch"
            /\ UNCHANGED << articles, use_pipeline, idx, full_text,
                            text_to_summarize, summary, results, iteration,
                            history >>
       ELSE ExceptHandler
    /\ UNCHANGED << cat_vars, fn_vars, pipe_vars >>

\* Fetch as it would be if a fetch that fails left full_text as it was
Fetch_stale ==
    /\ pc = "fetch"
    /\ \E resp \in Responses :
           /\ response' = resp
           /\ full_text' = IF fetch_full_article_text(resp) = None
                           THEN full_text
                           ELSE fetch_full_article_text(resp)
    /\ pc' = "select"
    /\ UNCHANGED << articles, use_pipeline, idx, title, existing_summary, url,
                    text_to_summarize, summary, results, gen, stages,
                    from_fallback, rejected, history >>
    /\ UNCHANGED << cat_vars, fn_vars, pipe_vars >>

\* full_text = self.fetch_full_article_text(url)
Fetch ==
    /\ pc = "fetch"
    /\ \E resp \in Responses :
           /\ response' = resp
           /\ full_text' = fetch_full_article_text(resp)
    /\ pc' = "select"
    /\ UNCHANGED << articles, use_pipeline, idx, title, existing_summary, url,
                    text_to_summarize, summary, results, gen, stages,
                    from_fallback, rejected, history >>
    /\ UNCHANGED << cat_vars, fn_vars, pipe_vars >>

Select ==
    /\ pc = "select"
    /\ text_to_summarize' = SelectText(title, existing_summary, full_text)
    /\ stages' = Append(stages, "select")
    /\ pc' = "summarize"
    /\ UNCHANGED << articles, use_pipeline, idx, title, existing_summary, url,
                    full_text, summary, results, response, gen, from_fallback,
                    rejected, history >>
    /\ UNCHANGED << cat_vars, fn_vars, pipe_vars >>

\* summary = self.summarize_with_pipeline(text) or summarize_with_model(text)
Summarize ==
    /\ pc = "summarize"
    /\ \E g \in GenOutcomes(Lookup(ModelInputs, text_to_summarize)) :
           LET res == IF use_pipeline
                      THEN Lookup(Summarized, <<text_to_summarize, g>>).pipeline
                      ELSE Lookup(Summarized, <<text_to_summarize, g>>).model
           IN  /\ gen' = g
               /\ summary' = res.summary
               /\ stages' = stages \o res.stages
               /\ from_fallback' = res.from_fallback
               /\ rejected' = (~g.raised /\ res.from_fallback)
    /\ pc' = "validate"
    /\ UNCHANGED << articles, use_pipeline, idx, title, existing_summary, url,
                    full_text, text_to_summarize, results, response, history >>
    /\ UNCHANGED << cat_vars, fn_vars, pipe_vars >>

\* Validate as it would be if a rejected summary were counted but kept
Validate_keep ==
    /\ pc = "validate"
    /\ IF ~Lookup(Validity, <<text_to_summarize, summary>>)
       THEN /\ failed_summaries' = failed_summaries + 1
            /\ stages' = Append(stages, "validate")
            /\ rejected' = (rejected \/ ~from_fallback)
            /\ UNCHANGED << summary, from_fallback >>
       ELSE /\ stages' = Append(stages, "validate")
            /\ UNCHANGED << summary, failed_summaries, from_fallback, rejected >>
    /\ pc' = "record"
    /\ UNCHANGED << articles, use_pipeline, idx, title, existing_summary, url,
                    full_text, text_to_summarize, processed, output, writes,
                    response, gen, history >>
    /\ UNCHANGED << cat_vars, fn_vars, pipe_vars >>

\* Validate as it would be if the fallback's result were validated again and
\* the fallback repeated
Validate_again ==
    /\ pc = "validate"
    /\ IF ~Lookup(Validity, <<text_to_summarize, summary>>)
       THEN /\ summary' = Lookup(Fallbacks, text_to_summarize)
            /\ failed_summaries' = failed_summaries + 1
            /\ stages' = stages \o <<"validate", "fallback", "validate", "fallback">>
            /\ from_fallback' = TRUE
            /\ rejected' = (rejected \/ ~from_fallback)
       ELSE /\ stages' = Append(stages, "validate")
            /\ UNCHANGED << summary, failed_summaries, from_fallback, rejected >>
    /\ pc' = "record"
    /\ UNCHANGED << articles, use_pipeline, idx, title, existing_summary, url,
                    full_text, text_to_summarize, processed, output, writes,
                    response, gen, history >>
    /\ UNCHANGED << cat_vars, fn_vars, pipe_vars >>

\* if not self.is_valid_summary(summary, text): fall back and count
Validate ==
    /\ pc = "validate"
    /\ IF ~Lookup(Validity, <<text_to_summarize, summary>>)
       THEN /\ summary' = Lookup(Fallbacks, text_to_summarize)
            /\ failed_summaries' = failed_summaries + 1
            /\ stages' = stages \o <<"validate", "fallback">>
            /\ from_fallback' = TRUE
            /\ rejected' = (rejected \/ ~from_fallback)
       ELSE /\ stages' = Append(stages, "validate")
            /\ UNCHANGED << summary, failed_summaries, from_fallback, rejected >>
    /\ pc' = "record"
    /\ UNCHANGED << articles, use_pipeline, idx, title, existing_summary, url,
                    full_text, text_to_summarize, processed, output, writes,
                    response, gen, history >>
    /\ UNCHANGED << cat_vars, fn_vars, pipe_vars >>

\* the record appended for the article
Structured ==
    [ title            |-> title,
      link             |-> url,
      original_summary |-> existing_summary,
      ai_summary       |-> summary,
      content_source   |-> IF full_text # None /\ full_text # <<>>
                           THEN "full_article" ELSE "original_summary" ]

\* Record as it would be if the output file were rewritten after each record
Record_flush ==
    /\ pc = "record"
    /\ \/ /\ processed' = Append(processed, Structured)
          /\ output' = Append(processed, Structured)
          /\ writes' = writes + 1
          /\ stages' = Append(stages, "done")
          /\ outcomes' = Append(outcomes, "emitted")
          /\ fallback_records' = fallback_records + (IF from_fallback THEN 1 ELSE 0)
          /\ pc' = "loop"
          /\ UNCHANGED << articles, use_pipeline, idx, locals,
                          failed_summaries, response, gen,
                          from_fallback, rejected, failed_at >>
       \/ ExceptHandler
    /\ UNCHANGED << cat_vars, fn_vars, pipe_vars >>

\* Record as it would be if the record were put in front of the list
Record_prepend ==
    /\ pc = "record"
    /\ \/ /\ processed' = << Structured >> \o processed
          /\ stages' = Append(stages, "done")
          /\ outcomes' = Append(outcomes, "emitted")
          /\ fallback_records' = fallback_records + (IF from_fallback THEN 1 ELSE 0)
          /\ pc' = "loop"
          /\ UNCHANGED << articles, use_pipeline, idx, locals,
                          failed_summaries, output, writes, response, gen,
                          from_fallback, rejected, failed_at >>
       \/ ExceptHandler
    /\ UNCHANGED << cat_vars, fn_vars, pipe_vars >>

\* entities = self.extract_entities_with_spacy(text): the call returns or
\* raises; then the record is built and appended
Record ==
    /\ pc = "record"
    /\ \/ /\ processed' = Append(processed, Structured)
          /\ stages' = Append(stages, "done")
          /\ outcomes' = Append(outcomes, "emitted")
          /\ fallback_records' = fallback_records + (IF from_fallback THEN 1 ELSE 0)
          /\ pc' = "loop"
          /\ UNCHANGED << articles, use_pipeline, idx, locals,
                          failed_summaries, output, writes, response, gen,
                          from_fallback, rejected, failed_at >>
       \/ ExceptHandler
    /\ UNCHANGED << cat_vars, fn_vars, pipe_vars >>

\* json.dump(processed, f) and the report
Save ==
    /\ pc = "save"
    /\ output' = processed
    /\ writes' = writes + 1
    /\ pc' = "done"
    /\ UNCHANGED << articles, use_pipeline, idx, locals, processed,
                    failed_summaries, iteration, history >>
    /\ UNCHANGED << cat_vars, fn_vars, pipe_vars >>

Next ==
    \/ Load
    \/ NextArticle
    \/ GetContent
    \/ Fetch
    \/ Select
    \/ Summarize
    \/ Validate
    \/ Record
    \/ Save

Spec == Init /\ [][Next]_vars

(***************************************************************************)
(* module3_categorization: normalize_category, categorize_summary,         *)
(* process_articles                                                        *)
(***************************************************************************)

ALLOWED_CATEGORIES ==
    << S("Strategy and Management"),
       S("Financials"),
       S("Investments, M&A and Partnerships"),
       S("Logistics and Operations"),
       S("Commercials"),
       S("ESG and Sustainability") >>

\* what normalize_category returns when nothing matches
Uncategorised == S("Uncategorised")

\* what process_articles assigns when the try block raised
Uncategorized == S("Uncategorized")

\* normalize_category as it would be with the fuzzy match in one direction
normalize_category_oneway(llm_output) ==
    LET stripped == Lower(Strip(llm_output))
        exact == {k \in DOMAIN ALLOWED_CATEGORIES :
                     stripped = Lower(ALLOWED_CATEGORIES[k])}
        fuzzy == {k \in DOMAIN ALLOWED_CATEGORIES :
                     Contains(stripped, Lower(ALLOWED_CATEGORIES[k]))}
    IN  IF exact # {} THEN ALLOWED_CATEGORIES[MinOf(exact)]
        ELSE IF fuzzy # {} THEN ALLOWED_CATEGORIES[MinOf(fuzzy)]
        ELSE Uncategorised

\* normalize_category as it would be if the fuzzy match were tried for a
\* non-empty label only
normalize_category_nonempty(llm_output) ==
    LET stripped == Lower(Strip(llm_output))
        exact == {k \in DOMAIN ALLOWED_CATEGORIES :
                     stripped = Lower(ALLOWED_CATEGORIES[k])}
        fuzzy == {k \in DOMAIN ALLOWED_CATEGORIES :
                     /\ stripped # <<>>
                     /\ \/ Contains(stripped, Lower(ALLOWED_CATEGORIES[k]))
                        \/ Contains(Lower(ALLOWED_CATEGORIES[k]), stripped)}
    IN  IF exact # {} THEN ALLOWED_CATEGORIES[MinOf(exact)]
        ELSE IF fuzzy # {} THEN ALLOWED_CATEGORIES[MinOf(fuzzy)]
        ELSE Uncategorised

normalize_category(llm_output) ==
    LET stripped == Lower(Strip(llm_output))
        \* for cat in ALLOWED_CATEGORIES: if output == cat.lower()
        exact == {k \in DOMAIN ALLOWED_CATEGORIES :
                     stripped = Lower(ALLOWED_CATEGORIES[k])}
        \* if cat.lower() in output or output in cat.lower()
        fuzzy == {k \in DOMAIN ALLOWED_CATEGORIES :
                     \/ Contains(stripped, Lower(ALLOWED_CATEGORIES[k]))
                     \/ Contains(Lower(ALLOWED_CATEGORIES[k]), stripped)}
    IN  IF exact # {} THEN ALLOWED_CATEGORIES[MinOf(exact)]
        ELSE IF fuzzy # {} THEN ALLOWED_CATEGORIES[MinOf(fuzzy)]
        ELSE Uncategorised

\* raw = response['message']['content'].strip()
RawOf(content) == Strip(content)

\* categorize_summary once the chat call has answered with content
categorize_summary(content) == normalize_category(RawOf(content))

\* what the chat model can answer
Answers ==
    {ALLOWED_CATEGORIES[k] : k \in DOMAIN ALLOWED_CATEGORIES}
    \cup {Lower(ALLOWED_CATEGORIES[k]) : k \in DOMAIN ALLOWED_CATEGORIES}
    \cup {S(" ") \o ALLOWED_CATEGORIES[k] \o S(".\n") :
             k \in DOMAIN ALLOWED_CATEGORIES}
    \cup {S("financials"), S("Financials"), S(" FINANCIALS "),
          S("synergistic blue-sky thinking"), S(""), S("   "), S("and"),
          S("M&A"), S("operations"), S("Commercial"), S("esg"), S("Finance"),
          S("Category: Financials"), S("Financials and Commercials"),
          S("Commercials and Financials"), S("Logistics"),
          S("STRATEGY AND MANAGEMENT"), S("Partnerships and M&A"),
          S("Uncategorised"), S("Uncategorized"), S("s"),
          S("ESG  and Sustainability"), S("I am not sure")}

\* the chat call raises, or answers with content
ChatOutcomes ==
    {[raised |-> TRUE, content |-> <<>>]}
    \cup {[raised |-> FALSE, content |-> a] : a \in Answers}

\* the items of the input file: an object with a title, an object without
\* one, and an item that is not an object
CatItems ==
    {[is_dict |-> TRUE,  has_title |-> TRUE],
     [is_dict |-> TRUE,  has_title |-> FALSE],
     [is_dict |-> FALSE, has_title |-> FALSE]}

\* the summarization run is not part of the behaviour
SummarizerIdle ==
    /\ articles = <<>>
    /\ use_pipeline = TRUE
    /\ pc = "idle"
    /\ idx = 0
    /\ title = <<>> /\ existing_summary = <<>> /\ url = <<>>
    /\ full_text = None /\ text_to_summarize = <<>> /\ summary = <<>>
    /\ processed = <<>>
    /\ failed_summaries = 0
    /\ output = <<>>
    /\ writes = 0
    /\ response = NoResponse /\ gen = NoGen /\ stages = <<>>
    /\ from_fallback = FALSE /\ rejected = FALSE
    /\ outcomes = <<>> /\ failed_at = {} /\ fallback_records = 0

CatInit ==
    /\ cat_articles \in SeqsUpTo(CatItems, MaxArticles)
    /\ cat_pc = "start"
    /\ cat_idx = 0
    /\ category = <<>>
    /\ categories = <<>>
    /\ cat_output = <<>>
    /\ cat_writes = 0
    /\ raw = <<>>
    /\ cat_raised = {}
    /\ SummarizerIdle /\ FnIdle /\ PipeIdle

\* open(input_path) and json.load: the exception of a file that cannot be
\* read or parsed ends the run
CatLoad ==
    /\ cat_pc = "start"
    /\ \/ cat_pc' = "loop"
       \/ cat_pc' = "unreadable"
    /\ UNCHANGED << cat_articles, cat_idx, category, categories, cat_output,
                    cat_writes, raw, cat_raised >>
    /\ UNCHANGED << vars, fn_vars, pipe_vars >>

\* for idx, article in enumerate(articles)
CatNext ==
    /\ cat_pc = "loop"
    /\ IF cat_idx < Len(cat_articles)
       THEN /\ cat_idx' = cat_idx + 1
            /\ cat_pc' = "try"
            /\ raw' = <<>>
       ELSE /\ cat_pc' = "save"
            /\ UNCHANGED << cat_idx, raw >>
    /\ UNCHANGED << cat_articles, category, categories, cat_output,
                    cat_writes, cat_raised >>
    /\ UNCHANGED << vars, fn_vars, pipe_vars >>

\* the try block and its handler: article['title'] raises for an item
\* without a title, the chat call may raise; the handler assigns the category
Categorize ==
    /\ cat_pc = "try"
    /\ \E answer \in ChatOutcomes :
          IF /\ cat_articles[cat_idx].is_dict
             /\ cat_articles[cat_idx].has_title
             /\ ~answer.raised
          THEN /\ raw' = RawOf(answer.content)
               /\ category' = categorize_summary(answer.content)
               /\ UNCHANGED cat_raised
          ELSE /\ category' = Uncategorized
               /\ cat_raised' = cat_raised \cup {cat_idx}
               /\ UNCHANGED raw
    /\ cat_pc' = "assign"
    /\ UNCHANGED << cat_articles, cat_idx, categories, cat_output, cat_writes >>
    /\ UNCHANGED << vars, fn_vars, pipe_vars >>

\* article['category'] = category, after the try statement: the TypeError of
\* an item that is not an object is not caught and ends the run
Assign ==
    /\ cat_pc = "assign"
    /\ IF cat_articles[cat_idx].is_dict
       THEN /\ categories' = Append(categories, category)
            /\ cat_pc' = "loop"
       ELSE /\ cat_pc' = "crashed"
            /\ UNCHANGED categories
    /\ UNCHANGED << cat_articles, cat_idx, category, cat_output, cat_writes,
                    raw, cat_raised >>
    /\ UNCHANGED << vars, fn_vars, pipe_vars >>

\* json.dump(articles, f): the items with their categories
CatSave ==
    /\ cat_pc = "save"
    /\ cat_output' = [k \in 1..Len(cat_articles) |->
                         [item |-> cat_articles[k], category |-> categories[k]]]
    /\ cat_writes' = cat_writes + 1
    /\ cat_pc' = "done"
    /\ UNCHANGED << cat_articles, cat_idx, category, categories, raw,
                    cat_raised >>
    /\ UNCHANGED << vars, fn_vars, pipe_vars >>

CatStep ==
    \/ CatLoad
    \/ CatNext
    \/ Categorize
    \/ Assign
    \/ CatSave

CatSpec == CatInit /\ [][CatStep]_cat_vars

(***************************************************************************)
(* Calls of the text functions on their own: one call per behaviour, the   *)
(* arguments drawn from the cases below                                    *)
(***************************************************************************)

FnInit ==
    /\ FnIdle
    /\ SummarizerIdle /\ CatIdle /\ PipeIdle

\* normalize_category(output)
CallNormalize ==
    /\ fn = "idle"
    /\ \E label \in Answers :
          /\ arg' = label
          /\ ret' = normalize_category(label)
    /\ fn' = "normalize_category"
    /\ UNCHANGED << vars, cat_vars, pipe_vars >>

\* the k-th word of the sources below: "w" and three digits
SourceWord(k) ==
    << "w", DigitChars[((k \div 100) % 10) + 1],
       DigitChars[((k \div 10) % 10) + 1], DigitChars[(k % 10) + 1] >>

\* the k-th word that is in none of the sources
NovelWord(k) == << "n", "o", "v", "e", "l", DigitChars[(k % 10) + 1] >>

\* the words a..b of the sources joined by spaces: every word has four
\* characters, so the character at position p is known from p
SourceText(a, b) ==
    [p \in 1..(5 * (b - a + 1) - 1) |->
        IF p % 5 = 0 THEN " " ELSE SourceWord(a + ((p - 1) \div 5))[p % 5]]

\* the words a..b of the sources, then m novel words, joined by spaces
Words(a, b, m) ==
    LET own == JoinWords([k \in 1..m |-> NovelWord(k)], 1)
    IN  IF b < a THEN own
        ELSE IF m = 0 THEN SourceText(a, b)
        ELSE SourceText(a, b) \o S(" ") \o own

\* a source text of 110 distinct words
LongSource == Words(1, 110, 0)

\* (summary, original_text): summaries that share k words with the first 100
\* of the source and have m words of their own; summaries that start behind
\* the first 100 words; short, padded, upper-case, repeating and URL-bearing
\* summaries
ValidatorCases ==
    {<<Words(1, k, m), LongSource>> : k \in 0..8, m \in 0..4}
    \cup {<<Words(a, a + 9, 0), LongSource>> : a \in {91, 93, 94, 99, 101}}
    \cup {<<Words(1, 90, 0), Words(1, 100, 0)>>,
          <<Words(1, 5, 0) \o S(" ") \o Words(101, 110, 4), Words(1, 100, 0)>>,
          <<S("W001 W002 W003 W004 W005"), LongSource>>,
          <<S("w001 w001 w001 w001 w001 novel1 novel2"), LongSource>>,
          <<S("a b c d e f g h i j"), LongSource>>,
          <<S("a b c d e f g h i j k"), LongSource>>,
          <<S("a b c d e f g h i j     "), LongSource>>,
          <<S("     a b c d e f g h i j"), LongSource>>,
          <<S("                        "), LongSource>>,
          <<S(""), LongSource>>,
          <<S("read it at http://news.example/a today"), LongSource>>,
          <<S("read it at https://news.example/a today"), LongSource>>,
          <<S("read it at news.example/a today or not"), LongSource>>}

\* is_valid_summary(summary, original_text)
CallIsValid ==
    /\ fn = "idle"
    /\ \E case \in ValidatorCases :
          /\ arg' = case
          /\ ret' = is_valid_summary(case[1], case[2])
    /\ fn' = "is_valid_summary"
    /\ UNCHANGED << vars, cat_vars, pipe_vars >>

\* the upper-case letter of each lower-case letter
UpperOf ==
    [c \in SetOf(LowerChars) |->
        UpperChars[CHOOSE i \in 1..Len(LowerChars) : LowerChars[i] = c]]

\* str.upper()
Upper(t) == [i \in 1..Len(t) |-> IF t[i] \in DOMAIN UpperOf THEN UpperOf[t[i]] ELSE t[i]]

\* the names of the knowledge base
EntityNames == {entity_corrections[k][1] : k \in DOMAIN entity_corrections}

\* a name as written, in lower case and in upper case
Spellings(name) == {name, Lower(name), Upper(name)}

\* the entities of the texts below, one of each type and one with an
\* ampersand
InjectNames == {S("Linklaters"), S("Allen & Overy"), S("EY"), S("Goldman Sachs")}

\* texts that mention an entity once and three times, in every spelling;
\* texts that mention two entities; texts that hold a name inside a word
InjectCases ==
    UNION {{S("Today ") \o v \o S(" said.") : v \in Spellings(n)} :
              n \in InjectNames}
    \cup UNION {{S("Today ") \o v[1] \o S(" said, then ") \o v[2]
                    \o S(" won, later ") \o v[3] \o S(" left.") :
                    v \in Spellings(n) \X Spellings(n) \X Spellings(n)} :
                   n \in InjectNames}
    \cup {S("UBS hired ey. Then EY met ubs and UBS again."),
          S("The Linklatersx team and the keyboard of heyday."),
          S("Linklaters (the law firm) said Linklaters won."),
          S("Nothing to annotate here."),
          S("")}

\* preprocess_text_with_context(text)
CallInject ==
    /\ fn = "idle"
    /\ \E t \in InjectCases :
          /\ arg' = t
          /\ ret' = preprocess_text_with_context(t)
    /\ fn' = "preprocess_text_with_context"
    /\ UNCHANGED << vars, cat_vars, pipe_vars >>

\* the law firms of the relationship cases
RelationFirms == {S("Slaughter and May"), S("Linklaters"), S("Clifford Chance")}

\* "<firm> are a couple." and the like
RelationCases ==
    {f \o S(" ") \o RelationVerbs[v] \o S(" ") \o RelationWords[w] \o S(".") :
        f \in RelationFirms, v \in DOMAIN RelationVerbs, w \in DOMAIN RelationWords}

\* summaries with two bare occurrences of one firm name
RepeatCases ==
    {S("Linklaters advised Acme. Linklaters won."),
     S("Goldman Sachs met Goldman Sachs"),
     S("linklaters and then LINKLATERS again")}

\* the summaries given to the corrector: the bare names of the knowledge
\* base, the relationship cases, summaries that repeat a name, cases of the
\* survive/escape rule, and summaries that are corrected already
CorrectorCases ==
    EntityNames
    \cup RelationCases
    \cup RepeatCases
    \cup {S("Linklaters and Acme escape"),
          S("Linklaters and B escape and C escape"),
          S("Acme and Linklaters escape and Bob and Carol survive"),
          S("Slaughter and May survive the crash"),
          S("Goldman Sachs and Acme make it out alive"),
          S("Acme and Bob survive"),
          S("Linklaters law firm advised Acme"),
          S("linklaters LLP and GOLDMAN SACHS advised"),
          S("Boston Consulting Group and Bain & Company escape"),
          NovelSummary,
          S("")}

\* post_process_summary(summary)
CallCorrect ==
    /\ fn = "idle"
    /\ \E s \in CorrectorCases :
          /\ arg' = s
          /\ ret' = post_process_summary(s)
    /\ fn' = "post_process_summary"
    /\ UNCHANGED << vars, cat_vars, pipe_vars >>

\* post_process_summary applied to what it returned
CallCorrectAgain ==
    /\ fn = "post_process_summary"
    /\ arg' = ret
    /\ ret' = post_process_summary(ret)
    /\ fn' = "post_process_summary again"
    /\ UNCHANGED << vars, cat_vars, pipe_vars >>

\* the texts given to the fallback: without a terminator, one sentence with
\* its full stop, several sentences, sentences ended by "!" and "?", first
\* sentences of the limit's length and beyond it
FallbackCases ==
    {S("Hello"), S("Hello."), S("Hello..."), S(""),
     S("A. B."), S("One. Two. Three. Four."), S("Wow! Really? Yes."),
     S("Acme rose today. Profits doubled"),
     Rep("a", MaxSummaryLength + 50),
     Rep("a", MaxSummaryLength + 1) \o S("."),
     Rep("a", MaxSummaryLength) \o S(". Second."),
     Rep("a", MaxSummaryLength - 1) \o S(". Second."),
     Rep("a", MaxSummaryLength - 2) \o S(". Second."),
     Rep("a", 100) \o S(". ") \o Rep("b", 120) \o S(". Third."),
     Rep("a", 90) \o S(". ") \o Rep("b", 90) \o S(". Third.")}

CallFallback ==
    /\ fn = "idle"
    /\ \E t \in FallbackCases :
          /\ arg' = t
          /\ ret' = fallback_summarize(t, MaxSummaryLength)
    /\ fn' = "fallback_summarize"
    /\ UNCHANGED << vars, cat_vars, pipe_vars >>

\* the texts given to clean_text: each boilerplate phrase, in several letter
\* cases, inside a word and split over whitespace; URLs and e-mail
\* addresses; runs of whitespace; texts with nothing to remove
CleanCases ==
    {S(""),
     S("Plain text stays."),
     S("  lead  and trail  "),
     S("Line one") \o <<"\n", "\n">> \o S("Line  two") \o <<"\t">> \o S(" end"),
     S("Acme rose. Click here to read. More text"),
     S("Acme rose. Read more at site"),
     S("read  more"),
     S("click") \o <<"\n">> \o S("here now"),
     S("Our subscribers grew"),
     S("Follow us on X. Share this"),
     S("share") \o <<"\t">> \o S("this") \o <<"\n">> \o S("now"),
     S("Terms. COOKIE POLICY here"),
     S("Privacy Policy applies"),
     S("See comments section below for details"),
     S("See comments"),
     S("below comments"),
     S("comments below and below that. Bye"),
     S("Comments are closed. Below the fold"),
     S("subcomments belowscribe now"),
     S("Visit https://x.com/a?b=1 now"),
     S("see http://a.b/c~d end"),
     S("u http://a.com/http://b.org v"),
     S("x http://a.com,next"),
     S("http:// broken"),
     S("Mail bob@example.com today"),
     S("a.b+c@d-e.co.uk, ok"),
     S("foo@bar.c0m x"),
     S("a@b.cd@e.fg"),
     S("joe@site.com.")}

CallClean ==
    /\ fn = "idle"
    /\ \E t \in CleanCases :
          /\ arg' = t
          /\ ret' = clean_text(t)
    /\ fn' = "clean_text"
    /\ UNCHANGED << vars, cat_vars, pipe_vars >>

FnStep ==
    \/ CallNormalize
    \/ CallIsValid
    \/ CallInject
    \/ CallCorrect
    \/ CallCorrectAgain
    \/ CallFallback
    \/ CallClean

FnSpec == FnInit /\ [][FnStep]_fn_vars

(***************************************************************************)
(* The launcher script, run_full_ppt_pipeline.py                           *)
(***************************************************************************)

\* the packages outside the standard library that the modules import
ThirdParty ==
    {"feedparser", "transformers", "torch", "tqdm", "requests", "bs4",
     "spacy", "ollama", "pptx"}

\* the third-party packages a module imports at its top level
Requires(module) ==
    CASE module = "news_extraction"        -> {"feedparser"}
      [] module = "content_extraction"     ->
             {"transformers", "torch", "tqdm", "requests", "bs4", "spacy"}
      [] module = "module3_categorization" -> {"ollama", "tqdm"}
      [] module = "module4_ppt_generator"  -> {"pptx"}
      [] module = "requests"               -> {"requests"}
      [] OTHER                             -> {}

\* the names a module has at its top level once it is executed: what it
\* imports, assigns and defines
ModuleNames(module) ==
    CASE module = "news_extraction" ->
             {"feedparser", "argparse", "json", "os", "extract_news",
              "save_articles_to_json", "display_articles"}
      [] module = "content_extraction" ->
             {"json", "argparse", "BartTokenizer",
              "BartForConditionalGeneration", "pipeline", "torch", "Path",
              "tqdm", "requests", "BeautifulSoup", "re", "time", "spacy",
              "defaultdict", "ArticleSummarizer"}
      [] module = "module3_categorization" ->
             {"json", "argparse", "Client", "Path", "tqdm", "ollama_client",
              "PROMPT_TEMPLATE", "ALLOWED_CATEGORIES", "normalize_category",
              "categorize_summary", "process_articles"}
      [] module = "module4_ppt_generator" ->
             {"os", "json", "re", "defaultdict", "Counter", "Presentation",
              "Inches", "Pt", "MSO_SHAPE", "PP_ALIGN", "MSO_ANCHOR",
              "RGBColor", "CategoryChartData", "XL_CHART_TYPE",
              "XL_LEGEND_POSITION", "datetime", "calendar", "clean_filename",
              "extract_company_name", "analyze_content_themes",
              "calculate_media_metrics", "generate_strategic_insights",
              "add_gradient_background", "create_summary_slide",
              "create_chart_slide", "create_timeline_slide",
              "create_enhanced_conclusion_slide", "create_ppt_for_company",
              "generate_reports", "generate_single_company_report"}
      [] OTHER -> {}

\* import m
Import(m) == [module |-> m, from |-> {}, binds |-> {m}]

\* from m import the names from, bound as binds
FromImport(m, f, b) == [module |-> m, from |-> f, binds |-> b]

\* the import statements of the script, lines 1-7 and 10
Statements ==
    << Import("os"), Import("sys"), Import("json"),
       FromImport("news_extraction",
                  {"extract_news", "save_articles_to_json"},
                  {"extract_news", "save_articles_to_json"}),
       FromImport("content_extraction",
                  {"process_articles"}, {"summarize_articles"}),
       FromImport("module3_categorization",
                  {"process_articles"}, {"categorize_articles"}),
       FromImport("module4_ppt_generator",
                  {"create_ppt_for_company", "clean_filename"},
                  {"create_ppt_for_company", "clean_filename"}),
       Import("requests") >>

\* the stages of main, by the name main calls them with
Stages ==
    << "extract_news", "summarize_articles", "categorize_articles",
       "create_ppt_for_company" >>

\* the run ends: sys.exit(status), or the traceback of an uncaught exception
\* (status 1)
Exit(status, why) ==
    /\ pipe_pc' = "exited"
    /\ exit_status' = status
    /\ failure' = why

\* python run_full_ppt_pipeline.py, in an environment with some of the
\* packages installed
PipeInit ==
    /\ installed \in SUBSET ThirdParty
    /\ pipe_pc = "import"
    /\ line = 1
    /\ names = {}
    /\ started = <<>>
    /\ completed = <<>>
    /\ failure = "none"
    /\ exit_status = 0
    /\ SummarizerIdle /\ CatIdle /\ FnIdle

\* the import statement finds its module and executes it; a package the
\* module needs that is not installed raises ModuleNotFoundError
LoadModule ==
    /\ pipe_pc = "import"
    /\ IF Requires(Statements[line].module) \subseteq installed
       THEN /\ pipe_pc' = "bind"
            /\ UNCHANGED << failure, exit_status >>
       ELSE Exit(1, "ModuleNotFoundError")
    /\ UNCHANGED << installed, line, names, started, completed >>
    /\ UNCHANGED << vars, cat_vars, fn_vars >>

\* the import statement binds its names: a name the module does not have
\* raises ImportError; after the last statement the script calls main()
BindNames ==
    /\ pipe_pc = "bind"
    /\ IF Statements[line].from \subseteq ModuleNames(Statements[line].module)
       THEN /\ names' = names \cup Statements[line].binds
            /\ line' = line + 1
            /\ pipe_pc' = IF line = Len(Statements) THEN "main" ELSE "import"
            /\ UNCHANGED << failure, exit_status >>
       ELSE /\ Exit(1, "ImportError")
            /\ UNCHANGED << names, line >>
    /\ UNCHANGED << installed, started, completed >>
    /\ UNCHANGED << vars, cat_vars, fn_vars >>

\* if not check_ollama_server(): sys.exit(1)
CheckOllama ==
    /\ pipe_pc = "main"
    /\ \E reachable \in BOOLEAN :
          IF reachable
          THEN /\ pipe_pc' = "inputs"
               /\ UNCHANGED << failure, exit_status >>
          ELSE Exit(1, "ollama")
    /\ UNCHANGED << installed, line, names, started, completed >>
    /\ UNCHANGED << vars, cat_vars, fn_vars >>

\* the two input() calls, the assert on the company type and os.makedirs
ReadInputs ==
    /\ pipe_pc = "inputs"
    /\ \E company_type \in {"competitor", "potential customer", "client"},
          made \in BOOLEAN :
          IF company_type \notin {"competitor", "potential customer"}
          THEN Exit(1, "AssertionError")
          ELSE IF ~made THEN Exit(1, "OSError")
          ELSE /\ pipe_pc' = "stage"
               /\ UNCHANGED << failure, exit_status >>
    /\ UNCHANGED << installed, line, names, started, completed >>
    /\ UNCHANGED << vars, cat_vars, fn_vars >>

\* one of the four try blocks of main: the stage is called; when it raises,
\* or its name is not bound, the handler prints and calls sys.exit(1); after
\* the fourth stage main returns and the process ends with status 0
RunStage ==
    /\ pipe_pc = "stage"
    /\ LET stage == Stages[Len(completed) + 1]
       IN  \E raises \in BOOLEAN :
              IF stage \notin names
              THEN /\ Exit(1, "stage")
                   /\ UNCHANGED << started, completed >>
              ELSE /\ started' = Append(started, stage)
                   /\ IF raises
                      THEN /\ Exit(1, "stage")
                           /\ UNCHANGED completed
                      ELSE /\ completed' = Append(completed, stage)
                           /\ IF Len(completed) + 1 = Len(Stages)
                              THEN Exit(0, "none")
                              ELSE UNCHANGED << pipe_pc, failure, exit_status >>
    /\ UNCHANGED << installed, line, names >>
    /\ UNCHANGED << vars, cat_vars, fn_vars >>

\* the steps of the script up to the call of main
PipeStep ==
    \/ LoadModule
    \/ BindNames

PipeSpec == PipeInit /\ [][PipeStep]_pipe_vars

\* main() entered with the names of the import statements bound
MainInit ==
    /\ installed = ThirdParty
    /\ pipe_pc = "main"
    /\ line = Len(Statements) + 1
    /\ names = UNION {Statements[k].binds : k \in DOMAIN Statements}
    /\ started = <<>>
    /\ completed = <<>>
    /\ failure = "none"
    /\ exit_status = 0
    /\ SummarizerIdle /\ CatIdle /\ FnIdle

\* the steps of main
MainStep ==
    \/ CheckOllama
    \/ ReadInputs
    \/ RunStage

MainSpec == MainInit /\ [][MainStep]_pipe_vars

(***************************************************************************)
(* news_extraction.extract_news                                            *)
(***************************************************************************)

\* category_keywords, in the order of the dictionary
category_keywords ==
    << << S("Strategy & Management"),
          << S("strategy"), S("expansion"), S("reorganization"),
             S("leadership"), S("ceo"), S("executive"), S("management"),
             S("restructuring"), S("board"), S("appointment"),
             S("promotion"), S("succession") >> >>,
       << S("Financials"),
          << S("earnings"), S("results"), S("revenue"), S("profit"),
             S("growth"), S("guidance"), S("forecast"), S("financial"),
             S("loss"), S("quarter"), S("fiscal"), S("report") >> >>,
       << S("Investments, M&A & Partnerships"),
          << S("merger"), S("acquisition"), S("divestiture"),
             S("joint venture"), S("strategic alliance"), S("investment"),
             S("m&a"), S("partnership"), S("buyout"), S("stake"),
             S("deal") >> >>,
       << S("Logistics & Operations"),
          << S("distribution"), S("manufacturing"), S("supply chain"),
             S("disruption"), S("supplier"), S("operations"), S("plant"),
             S("factory"), S("network"), S("logistics"), S("production"),
             S("facility") >> >>,
       << S("Commercials"),
          << S("launch"), S("product"), S("service"), S("dtc"),
             S("direct to consumer"), S("e-commerce"), S("omnichannel"),
             S("initiative"), S("rollout"), S("offering"), S("market"),
             S("release") >> >>,
       << S("ESG/Sustainability"),
          << S("environment"), S("emissions"), S("green"),
             S("sustainability"), S("esg"), S("carbon"), S("climate"),
             S("reporting"), S("commitment"), S("renewable"),
             S("responsibility"), S("sustainable") >> >> >>

ups_company_patterns ==
    << S("ups inc"), S("ups corp"), S("united parcel service"),
       S("ups stock"), S("ups shares"), S("ups earnings"), S("ups revenue"),
       S("ups delivery"), S("ups logistics"), S("ups package"),
       S("ups driver"), S("ups workers"), S("ups union"), S("ups ceo"),
       S("ups executive") >>

company_indicators ==
    << S("company"), S("corp"), S("corporation"), S("inc"), S("ltd"),
       S("llc"), S("stock"), S("shares"), S("earnings"), S("ceo") >>

\* any(kw in text for kw in keywords)
AnyIn(keywords, t) == \E k \in DOMAIN keywords : Contains(t, keywords[k])

\* (title + " " + summary).lower()
TextToCheck(entry) == Lower(entry.title \o S(" ") \o entry.summary)

\* the company filter of the loop: the entry is about the company
AboutCompany(t, company_name) ==
    IF Upper(company_name) = S("UPS")
    THEN AnyIn(ups_company_patterns, t)
    ELSE /\ Contains(t, Lower(company_name))
         /\ Len(company_name) <= 3 => AnyIn(company_indicators, t)

\* the categories whose keywords occur in the text, by index
MatchedCategories(t) ==
    {c \in DOMAIN category_keywords : AnyIn(category_keywords[c][2], t)}

CeoText     == << S("Acme CEO sets strategy"), <<>> >>
ProfitText  == << S("Acme earnings beat forecast"), S("Profit up") >>
MergerText  == << S("ACME merger deal and product launch"), <<>> >>
PlantText   == << S("Acme plant cuts emissions"), S("A green deal") >>
PicnicText  == << S("Acme picnic was fun"), <<>> >>
WeatherText == << S("Weather in Paris"), S("Rain") >>
DriverText  == << S("UPS driver strike hits network"), <<>> >>

\* the titles and summaries of the feed entries below: texts of one and of
\* several categories, one without a business keyword, one that does not
\* name the company
EntryTexts ==
    {CeoText, ProfitText, MergerText, PlantText, PicnicText, WeatherText,
     DriverText}

Companies == {S("Acme"), S("UPS")}

\* per text of an entry: the companies it passes the filter for and the
\* categories it matches
TextFacts ==
    {<< x, [about |-> {c \in Companies :
                          AboutCompany(Lower(x[1] \o S(" ") \o x[2]), c)},
            cats  |-> MatchedCategories(Lower(x[1] \o S(" ") \o x[2]))] >> :
        x \in EntryTexts}

Facts(entry) == Lookup(TextFacts, << entry.title, entry.summary >>)

\* the loop over feed.entries: the articles that pass the filters, in order
RECURSIVE AllArticles(_, _, _)
AllArticles(entries, company_name, business_only) ==
    IF entries = <<>> THEN <<>>
    ELSE LET entry == entries[1]
             rest  == AllArticles(Tail(entries), company_name, business_only)
         IN  IF /\ company_name \in Facts(entry).about
                /\ business_only => Facts(entry).cats # {}
             THEN << entry >> \o rest
             ELSE rest

\* categorized_articles[cat]: used_links stays empty, so every article that
\* matches the category is in its list
Categorized(all_articles, c) ==
    SelectSeq(all_articles, LAMBDA a : c \in Facts(a).cats)

\* the links of a list of articles
LinksOf(list) == {list[k].link : k \in DOMAIN list}

\* for each category from c on, the first of its articles whose link is not
\* selected yet
RECURSIVE PickLoop(_, _, _)
PickLoop(all_articles, c, selected) ==
    IF c > Len(category_keywords) THEN selected
    ELSE LET fresh == SelectSeq(Categorized(all_articles, c),
                                LAMBDA a : a.link \notin LinksOf(selected))
         IN  PickLoop(all_articles, c + 1,
                      IF fresh = <<>> THEN selected
                      ELSE Append(selected,
                                  [title |-> fresh[1].title,
                                   summary |-> fresh[1].summary,
                                   link |-> fresh[1].link,
                                   category |-> category_keywords[c][1]]))

\* FillLoop as it would be without the test of the link
RECURSIVE FillLoop_any(_, _, _, _)
FillLoop_any(all_articles, k, selected, max_articles) ==
    IF k > Len(all_articles) THEN selected
    ELSE LET now == Append(selected,
                           [title |-> all_articles[k].title,
                            summary |-> all_articles[k].summary,
                            link |-> all_articles[k].link,
                            category |-> <<>>])
         IN  IF Len(now) >= max_articles THEN now
             ELSE FillLoop_any(all_articles, k + 1, now, max_articles)

\* the loop that fills the selection from all_articles, from article k on;
\* an article taken here has no category (<<>>)
RECURSIVE FillLoop(_, _, _, _)
FillLoop(all_articles, k, selected, max_articles) ==
    IF k > Len(all_articles) THEN selected
    ELSE LET now == IF all_articles[k].link \notin LinksOf(selected)
                    THEN Append(selected,
                                [title |-> all_articles[k].title,
                                 summary |-> all_articles[k].summary,
                                 link |-> all_articles[k].link,
                                 category |-> <<>>])
                    ELSE selected
         IN  IF Len(now) >= max_articles THEN now
             ELSE FillLoop(all_articles, k + 1, now, max_articles)

\* extract_news, given the entries of the parsed feed
extract_news(entries, company_name, max_articles, business_only) ==
    LET all_articles == AllArticles(entries, company_name, business_only)
        picked       == PickLoop(all_articles, 1, <<>>)
        selected     == IF Len(picked) < max_articles
                        THEN FillLoop(all_articles, 1, picked, max_articles)
                        ELSE picked
    IN  Prefix(selected, max_articles)

\* the longest feed and the largest max_articles
MaxEntries == 3
MaxWanted == 3

FeedEntry(x, l) == [title |-> x[1], summary |-> x[2], link |-> S(l)]

\* the entries a feed is made of: texts that share a link, a text under
\* two links
FeedEntries ==
    {FeedEntry(CeoText, "a"), FeedEntry(CeoText, "b"),
     FeedEntry(ProfitText, "a"), FeedEntry(ProfitText, "c"),
     FeedEntry(MergerText, "a"), FeedEntry(MergerText, "b"),
     FeedEntry(PlantText, "c"), FeedEntry(PicnicText, "b"),
     FeedEntry(WeatherText, "a"), FeedEntry(DriverText, "c")}

NewsInit ==
    /\ FnIdle
    /\ SummarizerIdle /\ CatIdle /\ PipeIdle

\* extract_news(company_name, max_articles, business_only) on a feed
CallExtractNews ==
    /\ fn = "idle"
    /\ \E entries \in SeqsUpTo(FeedEntries, MaxEntries),
          company_name \in Companies,
          max_articles \in 0..MaxWanted,
          business_only \in BOOLEAN :
          /\ arg' = [entries |-> entries, company_name |-> company_name,
                     max_articles |-> max_articles,
                     business_only |-> business_only]
          /\ ret' = extract_news(entries, company_name, max_articles,
                                 business_only)
    /\ fn' = "extract_news"
    /\ UNCHANGED << vars, cat_vars, pipe_vars >>

NewsSpec == NewsInit /\ [][CallExtractNews]_fn_vars

(***************************************************************************)
(* Properties                                                              *)
(***************************************************************************)

\* the iteration has just appended its record
JustEmitted ==
    pc = "loop" /\ outcomes # <<>> /\ outcomes[Len(outcomes)] = "emitted"

\* the record appended last
LastRecord == processed[Len(processed)]

\* how many times stage st was run in the current iteration
StageCount(st) == Cardinality({k \in DOMAIN stages : stages[k] = st})

\* post_process_summary of what the model can return, per returned text
Corrected ==
    {<<g, post_process_summary(g)>> :
        g \in {entry[1][2].text : entry \in Summarized}}

\* the tier of the selection that gave text_to_summarize
SelectedTier ==
    IF text_to_summarize = title THEN "title_only"
    ELSE IF full_text # None /\ text_to_summarize = title \o TitleJoin \o full_text
    THEN "full_article"
    ELSE "original_summary"

\* C1: every record emitted has a non-empty ai_summary
C1_SummaryNonEmpty ==
    \A k \in DOMAIN processed : processed[k].ai_summary # <<>>

\* C2: the ai_summary of a record emitted is not equal, ignoring case, to the
\* text that was selected and summarized for it
C2_SummaryDiffersFromText ==
    JustEmitted => Lower(LastRecord.ai_summary) # Lower(text_to_summarize)

\* C3: for a text of length at least 1, the summary the extractive fallback
\* returns is accepted by the validator against that text
C3_FallbackIsValid ==
    (pc \in {"validate", "record"} /\ from_fallback
        /\ Len(text_to_summarize) >= 1)
    => is_valid_summary(fallback_summarize(text_to_summarize, MaxSummaryLength),
                        text_to_summarize)

\* C4 as claimed: per article the fallback runs at most once and no
\* validation follows a fallback run
C4_FallbackOnceUnvalidated ==
    /\ StageCount("fallback") <= 1
    /\ \A k \in DOMAIN stages :
           stages[k] = "fallback" => \A j \in DOMAIN stages :
                                        j > k => stages[j] # "validate"

\* C4 as amended: per article the fallback runs at most twice; a fallback
\* result returned by the summarization call is validated once by
\* process_articles, the fallback run made after that validation is the last
\* stage before the record is built, and a fallback summary is emitted as the
\* fallback returned it
C4_FallbackTwiceLastUnvalidated ==
    /\ StageCount("fallback") <= 2
    /\ \A k \in DOMAIN stages :
           (stages[k] = "fallback" /\ k < Len(stages))
           => stages[k + 1] \in {"validate", "done"}
    /\ pc = "record"
       => \/ stages[Len(stages)] = "validate"
          \/ /\ stages[Len(stages)] = "fallback"
             /\ stages[Len(stages) - 1] = "validate"
    /\ (JustEmitted /\ from_fallback)
       => LastRecord.ai_summary = Lookup(Fallbacks, text_to_summarize)

\* the fallback ran twice on the article just emitted
C4_Witness ==
    /\ JustEmitted
    /\ StageCount("fallback") = 2
    /\ gen.raised

\* C5: the ai_summary of a record emitted is the fallback's exactly when the
\* model raised or the validator rejected the generative summary; a
\* generative summary that exists and is valid is kept
C5_FallbackIffRaisedOrRejected ==
    JustEmitted
    => /\ from_fallback <=> (gen.raised \/ rejected)
       /\ ~from_fallback
          => /\ Lookup(Validity, <<text_to_summarize, LastRecord.ai_summary>>)
             /\ LastRecord.ai_summary = Lookup(Corrected, gen.text)

\* a generative summary was kept for the first article and one was rejected
\* and replaced by the fallback for the second
C5_Witness ==
    /\ JustEmitted
    /\ Len(processed) = 2
    /\ processed[1].ai_summary = Lookup(Corrected, NovelSummary)
    /\ ~gen.raised /\ rejected /\ from_fallback

EmittedArticles == {i \in DOMAIN outcomes : outcomes[i] = "emitted"}

\* C7: an article that raises gets no record, the articles after it are
\* still processed, and the output is written with the records of the
\* articles that succeeded
C7_FailureIsolated ==
    /\ Len(processed) = Cardinality(EmittedArticles)
    /\ \A i \in EmittedArticles :
           LET k == Cardinality({j \in EmittedArticles : j <= i})
           IN  /\ processed[k].title = articles[i].title
               /\ processed[k].link = articles[i].link
    /\ pc = "aborted" => outcomes = <<>>
    /\ pc = "done"
       => /\ Len(outcomes) = Len(articles)
          /\ output = processed
          /\ writes = 1

\* the first article failed, the second was emitted and written
C7_Witness ==
    /\ pc = "done"
    /\ outcomes = <<"failed", "emitted">>
    /\ Len(output) = 1
    /\ output[1].title = articles[2].title

\* C8: the count reported as "used fallback" is the number of records
\* emitted with a fallback summary, the records whose fallback was taken
\* because the model raised included; stated for the runs where no article
\* failed after its summary was settled
C8_CountIsFallbackRecords ==
    (pc = "done" /\ "record" \notin failed_at)
    => failed_summaries = fallback_records

\* C9: the content_source of a record emitted names the tier whose text was
\* summarized
C9_SourceNamesTier ==
    JustEmitted
    => /\ LastRecord.content_source
              \in {"full_article", "original_summary", "title_only"}
       /\ LastRecord.content_source = SelectedTier

\* the fetch gave a status 200 and content that is not too short
FetchSucceeded ==
    ~response.raised /\ response.status_code = 200
        /\ Len(response.content) >= MinLength

\* the text the priority of C10 gives for the article and what its fetch gave
PriorityText ==
    IF FetchSucceeded /\ Len(response.content) > FullTextMin
    THEN articles[idx].title \o TitleJoin \o response.content
    ELSE IF Len(articles[idx].summary) > SummaryMin
    THEN articles[idx].title \o TitleJoin \o articles[idx].summary
    ELSE articles[idx].title

\* C10: the text to summarize is title + ". " + full text when the fetch
\* succeeded with more than 200 characters, else title + ". " + summary when
\* the summary has more than 50 characters, else the title; no article fails
\* at the selection
C10_SelectionByPriority ==
    /\ pc \in {"summarize", "validate", "record"}
       => text_to_summarize = PriorityText
    /\ "select" \notin failed_at

\* a page too short for the fetch moved the choice to the summary
C10_Witness ==
    /\ pc = "summarize"
    /\ ~response.raised /\ response.status_code = 200
    /\ Len(response.content) > FullTextMin
    /\ text_to_summarize = title \o TitleJoin \o existing_summary

\* the canonical labels equal to the trimmed label ignoring case, by index
EqualIgnoringCase(label) ==
    {k \in DOMAIN ALLOWED_CATEGORIES :
        Lower(ALLOWED_CATEGORIES[k]) = Lower(Strip(label))}

\* the canonical labels that contain the trimmed lowercased label or are
\* contained in it, by index
Related(label) ==
    {k \in DOMAIN ALLOWED_CATEGORIES :
        \/ \E i \in 1..(Len(ALLOWED_CATEGORIES[k]) + 1) :
              OccursAtCI(ALLOWED_CATEGORIES[k], Lower(Strip(label)), i)
        \/ \E i \in 1..(Len(label) + 1) :
              OccursAtCI(Lower(Strip(label)), ALLOWED_CATEGORIES[k], i)}

\* C11: normalize_category gives the canonical label equal to the trimmed
\* label ignoring case; else the first canonical label, in declared order,
\* that contains the trimmed lowercased label or is contained in it; else the
\* sentinel.  "financials", "Financials" and " FINANCIALS " give Financials,
\* "synergistic blue-sky thinking" gives the sentinel
C11_NormalizeIsReference ==
    fn = "normalize_category"
    => /\ EqualIgnoringCase(arg) # {}
          => \E k \in EqualIgnoringCase(arg) : ret = ALLOWED_CATEGORIES[k]
       /\ (EqualIgnoringCase(arg) = {} /\ Related(arg) # {})
          => \E k \in Related(arg) :
                /\ ret = ALLOWED_CATEGORIES[k]
                /\ \A j \in Related(arg) : k <= j
       /\ (EqualIgnoringCase(arg) = {} /\ Related(arg) = {})
          => ret = Uncategorised
       /\ arg \in {S("financials"), S("Financials"), S(" FINANCIALS ")}
          => ret = S("Financials")
       /\ arg = S("synergistic blue-sky thinking") => ret = Uncategorised

\* a label that contains two canonical labels was given the one declared
\* first
C11_Witness ==
    /\ fn = "normalize_category"
    /\ arg = S("Commercials and Financials")
    /\ ret = S("Financials")

\* the six canonical labels
Canonical == SetOf(ALLOWED_CATEGORIES)

\* C12: every record categorized carries one of the six canonical labels or
\* the one sentinel; no second spelling of the sentinel is written in a run
C12_OneSentinel ==
    \E sentinel \in {Uncategorised, Uncategorized} :
        \A k \in DOMAIN categories :
            categories[k] \in Canonical \cup {sentinel}

\* C13: an item whose classification raised, or that is malformed, is kept
\* with the sentinel as its category, and the output has the input's items
\* in the input's order
C13_RaisedItemKept ==
    cat_pc \in {"done", "crashed"}
    => /\ cat_writes = 1
       /\ Len(cat_output) = Len(cat_articles)
       /\ \A k \in DOMAIN cat_output :
              /\ cat_output[k].item = cat_articles[k]
              /\ k \in cat_raised
                 => cat_output[k].category \in {Uncategorised, Uncategorized}

\* the distinct lowercase words of t
DistinctWords(t) == {Lower(w) : w \in SetOf(Split(t))}

\* at least 80% of the distinct lowercase words of s are among the first 100
\* words of source
OverlapsSource(s, source) ==
    LET first == {Lower(Split(source)[k]) :
                     k \in 1..Min(OverlapWindow, Len(Split(source)))}
    IN  5 * Cardinality(DistinctWords(s) \cap first)
            >= 4 * Cardinality(DistinctWords(s))

C15_CorrectorIdempotent ==
    fn = "post_process_summary again" => ret = arg

\* the whole-word occurrences of name in t, in any letter case
Occurrences(t, name) ==
    {i \in 1..Len(t) :
        /\ OccursAtCI(t, name, i)
        /\ i = 1 \/ ~IsWordChar(t[i - 1])
        /\ i + Len(name) > Len(t) \/ ~IsWordChar(t[i + Len(name)])}

\* " (the <entity_type>)"
Qualifier(entity_type) == S(" (the ") \o entity_type \o S(")")

\* the entities of the knowledge base that occur in t, by index
Mentioned(t) ==
    {k \in DOMAIN entity_corrections :
        Occurrences(t, entity_corrections[k][1]) # {}}

\* C16: for each entity that occurs in the text as a whole word, in any
\* letter case, preprocess_text_with_context adds one qualifier, directly
\* after the first occurrence, which it writes as the knowledge base spells
\* it; the later occurrences and the rest of the text are unchanged
C16_OneQualifierAtFirst ==
    fn = "preprocess_text_with_context"
    => /\ \A k \in Mentioned(arg) :
              LET name == entity_corrections[k][1]
                  q    == Qualifier(entity_corrections[k][2])
                  occ  == Occurrences(ret, name)
              IN  /\ Cardinality(occ) = Cardinality(Occurrences(arg, name))
                  /\ {i \in occ : OccursAt(ret, q, i + Len(name))}
                         = {MinOf(occ)} \cup
                           {i \in occ : \E j \in Occurrences(arg, name) :
                                           /\ OccursAt(arg, q, j + Len(name))
                                           /\ i = j + Len(q)}
                  /\ OccursAt(ret, name, MinOf(occ))
       /\ Cardinality(Mentioned(arg)) = 1
          => \E k \in Mentioned(arg) :
                LET name == entity_corrections[k][1]
                    i    == MinOf(Occurrences(arg, name))
                IN  ret = SubSeq(arg, 1, i - 1) \o name
                              \o Qualifier(entity_corrections[k][2])
                              \o SubSeq(arg, i + Len(name), Len(arg))
       /\ Mentioned(arg) = {} => ret = arg

\* a text with the name three times, first in upper case, got the qualifier
\* after the first one only
C16_Witness ==
    /\ fn = "preprocess_text_with_context"
    /\ arg = S("Today LINKLATERS said, then linklaters won, later Linklaters left.")
    /\ ret = S("Today Linklaters (the law firm) said, then linklaters won, later Linklaters left.")

\* C17: once the input is loaded the run is not ended by an error: it
\* reaches the end of the loop and writes its output
C17_NoAbortAfterLoad ==
    /\ cat_pc \in {"idle", "start", "unreadable", "loop", "try", "assign",
                   "save", "done"}
    /\ pc \in {"idle", "start", "aborted", "loop", "get", "fetch", "select",
               "summarize", "validate", "record", "save", "done"}

\* C18: the output is written once, when every article has been emitted or
\* has failed; before that nothing is written
C18_OutputWrittenOnceAtEnd ==
    /\ pc \notin {"done", "idle"} => (writes = 0 /\ output = <<>>)
    /\ pc = "done" => /\ writes = 1
                      /\ Len(outcomes) = Len(articles)
                      /\ output = processed

\* the loop has ended with one article failed and one record appended, and
\* nothing is written yet
C18_Witness ==
    /\ pc = "save"
    /\ outcomes = <<"emitted", "failed">>
    /\ Len(processed) = 1
    /\ writes = 0
    /\ output = <<>>

\* the index of an entity's entry in the knowledge base
EntityIndex(name) ==
    CHOOSE k \in DOMAIN entity_corrections : entity_corrections[k][1] = name

\* C19: every entity of the knowledge base has a bare-name rule in
\* post_process_summary, and the rule appends the entity's category noun: the
\* corrector turns the bare name into the name followed by the noun
C19_EveryEntityHasRule ==
    (fn = "post_process_summary" /\ arg \in EntityNames)
    => /\ \E r \in DOMAIN BareNameRules : BareNameRules[r][1] = arg
       /\ ret = arg \o S(" ") \o entity_corrections[EntityIndex(arg)][2]

\* the relationship phrases
RelationPhrases ==
    {RelationVerbs[v] \o S(" ") \o RelationWords[w] :
        v \in DOMAIN RelationVerbs, w \in DOMAIN RelationWords}

\* C20: a summary where a known law firm's name is followed by a relationship
\* phrase is rewritten to say that the firm is a law firm, without the phrase
C20_RelationRewritten ==
    (fn = "post_process_summary" /\ arg \in RelationCases)
    => /\ Contains(ret, S("is a law firm"))
       /\ \A phrase \in RelationPhrases : ~Contains(ret, phrase)

\* C21: a correction rule rewrites one occurrence per summary: of two bare
\* occurrences of a firm name the first gets the category noun and the
\* second is left as it was
C21_RuleAppliedOnce ==
    (fn = "post_process_summary" /\ arg \in RepeatCases)
    => \E r \in DOMAIN BareNameRules :
          LET name == BareNameRules[r][1]
              occ  == Occurrences(arg, name)
          IN  /\ Cardinality(occ) = 2
              /\ ret = SubSeq(arg, 1, MinOf(occ) - 1) \o BareNameRules[r][3]
                           \o SubSeq(arg, MinOf(occ) + Len(name), Len(arg))

\* the sentences of a text: the pieces between its terminators that are
\* not blank, trimmed
SentencesOf(t) ==
    LET pieces == SplitSentences(t)
        keep   == SortSet({k \in DOMAIN pieces : Strip(pieces[k]) # <<>>})
    IN  [k \in 1..Len(keep) |-> Strip(pieces[keep[k]])]

\* the first k sentences, each followed by a full stop, joined by spaces
RECURSIVE FirstSentences(_, _)
FirstSentences(sentences, k) ==
    IF k = 0 THEN <<>>
    ELSE FirstSentences(sentences, k - 1)
         \o (IF k = 1 THEN <<>> ELSE S(" ")) \o sentences[k] \o S(".")

\* C22: a text with fewer than two sentences, a single sentence with its
\* full stop included, comes back as its first max_len characters followed
\* by the ellipsis
C22_ShortTextTruncated ==
    (fn = "fallback_summarize" /\ Len(SentencesOf(arg)) < 2)
    => ret = Prefix(arg, MaxSummaryLength) \o Ellipsis

\* C23: a text with two or more sentences comes back as its first k
\* sentences in order, k at most 3, never longer than max_len, and with the
\* first sentence in it whenever that sentence fits
C23_FirstSentencesWithinLimit ==
    (fn = "fallback_summarize" /\ Len(SentencesOf(arg)) >= 2)
    => LET sentences == SentencesOf(arg)
       IN  /\ Len(ret) <= MaxSummaryLength
           /\ \E k \in 0..Min(FallbackSentences, Len(sentences)) :
                 ret = FirstSentences(sentences, k)
           /\ Len(sentences[1]) <= MaxSummaryLength
              => Contains(ret, sentences[1])

\* t without the qualifier that follows the first occurrence of each of the
\* entities ks
RECURSIVE EraseQualifiers(_, _)
EraseQualifiers(t, ks) ==
    IF ks = {} THEN t
    ELSE LET k    == CHOOSE x \in ks : TRUE
             name == entity_corrections[k][1]
             q    == Qualifier(entity_corrections[k][2])
             occ  == Occurrences(t, name)
             at   == IF occ = {} THEN 0 ELSE MinOf(occ) + Len(name)
         IN  EraseQualifiers(
                 IF at # 0 /\ OccursAt(t, q, at)
                 THEN SubSeq(t, 1, at - 1) \o SubSeq(t, at + Len(q), Len(t))
                 ELSE t,
                 ks \ {k})

\* C24: preprocess_text_with_context only inserts qualifiers: the result
\* without the inserted qualifiers is the input, character for character,
\* and a text without an entity name comes back unchanged
C24_OnlyQualifiersInserted ==
    fn = "preprocess_text_with_context"
    => /\ EraseQualifiers(ret, Mentioned(arg)) = arg
       /\ Mentioned(arg) = {} => ret = arg

\* the first positions of the matches of the boilerplate patterns in t
BoilerplateStarts(t) ==
    {m.s : m \in UNION {BoilerplateMatches(t, boilerplate_patterns[k]) :
                           k \in DOMAIN boilerplate_patterns}}

\* C25: clean_text cuts the text at the first match of a boilerplate
\* pattern: the result is the text before that match, no pattern matches in
\* the result, and the empty text gives the empty text
C25_BoilerplateTruncates ==
    fn = "clean_text"
    => LET scrubbed == Scrubbed(arg)
           starts   == BoilerplateStarts(scrubbed)
       IN  /\ ret = Strip(IF starts = {} THEN scrubbed
                          ELSE SubSeq(scrubbed, 1, MinOf(starts) - 1))
           /\ BoilerplateStarts(ret) = {}
           /\ arg = <<>> => ret = <<>>

\* the record process_articles builds for an article from the article, the
\* page fetched for it and what the model generated for it
RecordFor(article, resp, g, pipeline) ==
    LET full == fetch_full_article_text(resp)
        text == SelectText(article.title, article.summary, full)
        res  == IF pipeline THEN Lookup(Summarized, <<text, g>>).pipeline
                ELSE Lookup(Summarized, <<text, g>>).model
    IN  [ title            |-> article.title,
          link             |-> article.link,
          original_summary |-> article.summary,
          ai_summary       |-> IF Lookup(Validity, <<text, res.summary>>)
                               THEN res.summary
                               ELSE Lookup(Fallbacks, text),
          content_source   |-> IF full # None /\ full # <<>>
                               THEN "full_article" ELSE "original_summary" ]

\* C26: the record emitted for an article is determined by the article, the
\* page fetched for it and the model's output for it; the articles
\* processed before it leave no trace in it
C26_RecordFromArticleAlone ==
    JustEmitted => LastRecord = RecordFor(articles[idx], response, gen,
                                          use_pipeline)

\* the second article was emitted without a fetched page, after a different
\* first article had failed with all its locals assigned
C26_Witness ==
    /\ JustEmitted
    /\ idx = 2
    /\ outcomes = <<"failed", "emitted">>
    /\ failed_at = {"record"}
    /\ articles[1].title # articles[2].title
    /\ full_text = None

\* the articles skipped on error so far, by position
SkippedArticles == {i \in DOMAIN outcomes : outcomes[i] = "failed"}

\* C27: the output is an order-preserving subsequence of the input: the
\* k-th record is the record of the k-th article that was emitted, every
\* article is either emitted once or skipped, and at the end the output
\* holds these records in this order
C27_OutputIsSubsequence ==
    LET emitted == SortSet(EmittedArticles)
    IN  /\ pc \in {"loop", "save", "done"}
           => /\ Len(outcomes) = idx
              /\ Len(processed) + Cardinality(SkippedArticles) = idx
        /\ Len(processed) = Len(emitted)
        /\ \A k \in DOMAIN processed :
               /\ processed[k].title = articles[emitted[k]].title
               /\ processed[k].link = articles[emitted[k]].link
               /\ processed[k].original_summary = articles[emitted[k]].summary
        /\ pc = "done"
           => /\ output = processed
              /\ Len(output) + Cardinality(SkippedArticles) = Len(articles)

\* two different articles were emitted, in their input order
C27_Witness ==
    /\ pc = "done"
    /\ outcomes = <<"emitted", "emitted">>
    /\ articles[1].link # articles[2].link
    /\ Len(output) = 2
    /\ output[1].link = articles[1].link
    /\ output[2].link = articles[2].link

\* C28: the stages start in the order fetch, summarize, categorize, render,
\* each after the one before it returned; a run that ends ended with an
\* error status because the Ollama check, an input or a stage failed, or it
\* ran the four stages and ended with status 0 (stated for an environment
\* with every package installed)
C28_StagesInOrder ==
    /\ \A k \in DOMAIN started : started[k] = Stages[k]
    /\ Len(started) <= Len(completed) + 1
    /\ (pipe_pc = "exited" /\ installed = ThirdParty)
       => \/ /\ exit_status = 1
             /\ failure \in {"ollama", "AssertionError", "OSError", "stage"}
             /\ Len(completed) < Len(Stages)
          \/ /\ exit_status = 0
             /\ completed = Stages

\* C29: extract_news returns at most max_articles articles, and no two of
\* them have the same link
C29_BoundedDistinctLinks ==
    fn = "extract_news"
    => /\ Len(ret) <= arg.max_articles
       /\ \A i, j \in DOMAIN ret : ret[i].link = ret[j].link => i = j

\* a feed of three entries, two of them with one link and one that matches
\* more than one category, gave two articles for max_articles = 2
C29_Witness ==
    /\ fn = "extract_news"
    /\ Len(arg.entries) = 3
    /\ arg.entries[1].link = arg.entries[2].link
    /\ Cardinality(Facts(arg.entries[1]).cats) > 1
    /\ arg.max_articles = 2
    /\ Len(ret) = 2

\* C30: a reply of the classifier that is empty or only whitespace is given
\* the first canonical category, Strategy and Management, and not the
\* sentinel
C30_EmptyReplyIsFirstCategory ==
    (cat_pc = "assign" /\ cat_idx \notin cat_raised /\ raw = <<>>)
    => /\ category = ALLOWED_CATEGORIES[1]
       /\ category = S("Strategy and Management")
       /\ category \notin {Uncategorised, Uncategorized}

\* the classifier answered the second item with nothing, and the item was
\* categorized
C30_Witness ==
    /\ cat_pc = "assign"
    /\ cat_idx = 2
    /\ cat_idx \notin cat_raised
    /\ raw = <<>>
    /\ category = S("Strategy and Management")

=============================================================================
